---------------------------- MODULE Spec2Model ----------------------------
(***************************************************************************)
(* Model of jlevesy/envconfig: Load = discovery pass (analyzeStruct) over  *)
(* the target's type graph followed by the assignment pass (assignValues)  *)
(* over the live instance, with the key codec (envVarFromPath,             *)
(* nextLevelKeys, keyFromEnvVar) they share.                               *)
(*                                                                         *)
(* Strings are TLA+ strings handled with Len, SubSeq and \o only.          *)
(***************************************************************************)
EXTENDS Integers, Sequences, FiniteSets, TLC

VARIABLES
    scn,      \* the scenario: target type and loader configuration
    env,      \* the process environment, in os.Environ order: <<[name, value]>>
    target,   \* the live configuration instance the caller holds
    pc,       \* "idle", or "panic" once a call has panicked; where Load is, one call
              \* at a time: "discover", "assign", "done", "fatal"
    rets,     \* one record per call of Load (or of a pass called on its own), in call order
    callerPath, \* the path slice a caller of the key codec holds
    calls,    \* one record per call of the key codec, in call order
    heap      \* the backing arrays of the path slices of the Load in progress
              \* and, for each discovered value, the slice that is its Path

vars == <<scn, env, target, pc, rets, callerPath, calls, heap>>

\* no backing array allocated, no discovered value
NoHeap == [arrays |-> <<>>, paths |-> <<>>]

-----------------------------------------------------------------------------
(* Bounds of the model *)

MaxEnv == 3       \* at most this many variables in the environment
MaxLoads == 2     \* Load is called at most this many times on one target
MaxCalls == 2     \* the key codec is called at most this many times on one path
MaxEmbed == 2     \* FieldByName looks for promoted fields down to this embedding depth
MaxPasses == 2    \* a pass is called on its own at most this many times on one target
MaxStack == 16    \* at most this many calls of the walk are pending at a time

-----------------------------------------------------------------------------
(* Strings: the parts of package strings / unicode the code uses *)

LowerLetters == "abcdefghijklmnopqrstuvwxyz"
UpperLetters == "ABCDEFGHIJKLMNOPQRSTUVWXYZ"
Digits == "0123456789"

Char(s, i) == SubSeq(s, i, i)

LowerSet == {Char(LowerLetters, i) : i \in 1..26}
UpperSet == {Char(UpperLetters, i) : i \in 1..26}
DigitSet == {Char(Digits, i) : i \in 1..10}

IsLower(c) == c \in LowerSet
IsUpper(c) == c \in UpperSet
IsDigit(c) == c \in DigitSet

\* position of the one-character string c in s (c occurs in s)
PosIn(c, s) == CHOOSE i \in 1..Len(s) : Char(s, i) = c

ToUpperChar(c) == IF IsLower(c) THEN Char(UpperLetters, PosIn(c, LowerLetters)) ELSE c
ToLowerChar(c) == IF IsUpper(c) THEN Char(LowerLetters, PosIn(c, UpperLetters)) ELSE c

\* the characters lo..hi of s, each mapped by Op (the range is halved to keep the
\* evaluation shallow)
RECURSIVE MapChars(_, _, _, _)
MapChars(Op(_), s, lo, hi) ==
    IF lo > hi THEN ""
    ELSE IF lo = hi THEN Op(Char(s, lo))
    ELSE LET mid == (lo + hi) \div 2
         IN  MapChars(Op, s, lo, mid) \o MapChars(Op, s, mid + 1, hi)

ToUpper(s) == MapChars(ToUpperChar, s, 1, Len(s))
ToLower(s) == MapChars(ToLowerChar, s, 1, Len(s))

HasPrefix(s, p) == Len(p) <= Len(s) /\ SubSeq(s, 1, Len(p)) = p

TrimPrefix(s, p) == IF HasPrefix(s, p) THEN SubSeq(s, Len(p) + 1, Len(s)) ELSE s

\* index of the first occurrence of sep in s (1-based), 0 when there is none
IndexOf(s, sep) ==
    LET hits == {i \in 1..(Len(s) - Len(sep) + 1) : SubSeq(s, i, i + Len(sep) - 1) = sep}
    IN  IF hits = {} THEN 0 ELSE CHOOSE i \in hits : \A j \in hits : i <= j

\* strings.Split(s, sep): with an empty sep, s exploded into its characters (none
\* for an empty s); otherwise the pieces between the occurrences of sep
RECURSIVE StringsSplit(_, _)
StringsSplit(s, sep) ==
    IF sep = ""
    THEN [i \in 1..Len(s) |-> Char(s, i)]
    ELSE LET i == IndexOf(s, sep)
         IN  IF i = 0 THEN <<s>>
             ELSE <<SubSeq(s, 1, i - 1)>> \o StringsSplit(SubSeq(s, i + Len(sep), Len(s)), sep)

RECURSIVE StringsJoin(_, _)
StringsJoin(parts, sep) ==
    IF Len(parts) = 0 THEN ""
    ELSE IF Len(parts) = 1 THEN parts[1]
    ELSE parts[1] \o sep \o StringsJoin(Tail(parts), sep)

-----------------------------------------------------------------------------
(* camelcase.Split of github.com/fatih/camelcase, the tokenizer envVarFromPath calls *)

\* class of a character: 1 lower, 2 upper, 3 digit, 4 other
CharClass(c) == IF IsLower(c) THEN 1 ELSE IF IsUpper(c) THEN 2 ELSE IF IsDigit(c) THEN 3 ELSE 4

\* first pass: maximal runs of characters of one class
RECURSIVE ClassRuns(_)
ClassRuns(s) ==
    IF Len(s) = 0 THEN <<>>
    ELSE LET rest == ClassRuns(SubSeq(s, 2, Len(s)))
             c == Char(s, 1)
         IN  IF Len(rest) > 0 /\ CharClass(Char(rest[1], 1)) = CharClass(c)
             THEN <<c \o rest[1]>> \o Tail(rest)
             ELSE <<c>> \o rest

\* second pass, left to right: the last upper-case letter of a run that a lower-case
\* run follows moves to the front of that run ("PDFL", "oader" -> "PDF", "Loader")
RECURSIVE MoveUpper(_, _)
MoveUpper(runs, i) ==
    IF i > Len(runs) - 1 THEN runs
    ELSE IF IsUpper(Char(runs[i], 1)) /\ IsLower(Char(runs[i + 1], 1))
         THEN MoveUpper([runs EXCEPT ![i] = SubSeq(runs[i], 1, Len(runs[i]) - 1),
                                     ![i + 1] = Char(runs[i], Len(runs[i])) \o runs[i + 1]],
                        i + 1)
         ELSE MoveUpper(runs, i + 1)

CamelcaseSplit(src) == SelectSeq(MoveUpper(ClassRuns(src), 1), LAMBDA r : Len(r) > 0)

-----------------------------------------------------------------------------
(* strconv.ParseUint(key, 10, 64) followed by int(index), as far as the code uses
   the result: only compared with a length and used as an index.  mag is
   "small" (val is the exact value, below 10^9), "big" (10^9 .. 2^63-1: a positive
   int above every length) or "wrap" (2^63 .. 2^64-1: int(index) is negative). *)

MaxUint64 == "18446744073709551615"
MaxInt64 == "9223372036854775807"

AllDigits(s) == \A i \in 1..Len(s) : IsDigit(Char(s, i))

RECURSIVE StripZeros(_)
StripZeros(s) == IF Len(s) > 1 /\ Char(s, 1) = "0" THEN StripZeros(SubSeq(s, 2, Len(s))) ELSE s

RECURSIVE DecValue(_)
DecValue(s) ==
    IF Len(s) = 0 THEN 0
    ELSE 10 * DecValue(SubSeq(s, 1, Len(s) - 1)) + (PosIn(Char(s, Len(s)), Digits) - 1)

\* a <= b for two digit strings without leading zeros
RECURSIVE DigitsLeq(_, _)
DigitsLeq(a, b) ==
    IF Len(a) # Len(b) THEN Len(a) < Len(b)
    ELSE IF Len(a) = 0 THEN TRUE
    ELSE IF Char(a, 1) # Char(b, 1) THEN PosIn(Char(a, 1), Digits) < PosIn(Char(b, 1), Digits)
    ELSE DigitsLeq(SubSeq(a, 2, Len(a)), SubSeq(b, 2, Len(b)))

ParseUint(s) ==
    IF Len(s) = 0 \/ ~AllDigits(s) THEN [ok |-> FALSE, mag |-> "small", val |-> 0]
    ELSE LET d == StripZeros(s)
         IN  IF ~DigitsLeq(d, MaxUint64) THEN [ok |-> FALSE, mag |-> "small", val |-> 0]
             ELSE IF Len(d) <= 9 THEN [ok |-> TRUE, mag |-> "small", val |-> DecValue(d)]
             ELSE IF DigitsLeq(d, MaxInt64) THEN [ok |-> TRUE, mag |-> "big", val |-> 0]
             ELSE [ok |-> TRUE, mag |-> "wrap", val |-> 0]

\* int(index) >= n and int(index) < n for a length n
IndexGeq(ix, n) == IF ix.mag = "small" THEN ix.val >= n ELSE ix.mag = "big"
IndexLess(ix, n) == ~IndexGeq(ix, n)
\* int(index) is a valid position of a sequence of length n
IndexValid(ix, n) == ix.mag = "small" /\ ix.val < n

-----------------------------------------------------------------------------
(* reflect.Type: every type is a record [kind, name, len, sub]; sub holds the
   element type of a pointer, slice or array, and <<key, elem>> of a map.  The
   fields of a struct type are looked up by its name in StructFields. *)

ScalarT(k) == [kind |-> k, name |-> k, len |-> 0, sub |-> <<>>]
NamedT(k, n) == [kind |-> k, name |-> n, len |-> 0, sub |-> <<>>]
StructT(n) == [kind |-> "struct", name |-> n, len |-> 0, sub |-> <<>>]
PtrT(t) == [kind |-> "ptr", name |-> "", len |-> 0, sub |-> <<t>>]
SliceT(t) == [kind |-> "slice", name |-> "", len |-> 0, sub |-> <<t>>]
ArrayT(n, t) == [kind |-> "array", name |-> "", len |-> n, sub |-> <<t>>]
MapT(k, t) == [kind |-> "map", name |-> "", len |-> 0, sub |-> <<k, t>>]

\* a defined pointer type whose element is the type itself (type P *P) has no sub
Elem(t) == IF t.kind = "ptr" /\ t.sub = <<>> THEN t ELSE t.sub[Len(t.sub)]
Key(t) == t.sub[1]

\* a reflect.StructField
Fld(n, t) == [name |-> n, type |-> t, anonymous |-> FALSE, hasTag |-> FALSE, tag |-> ""]
Embedded(n, t) == [name |-> n, type |-> t, anonymous |-> TRUE, hasTag |-> FALSE, tag |-> ""]
Tagged(n, t, v) == [name |-> n, type |-> t, anonymous |-> FALSE, hasTag |-> TRUE, tag |-> v]

noExpand == "noexpand"

UnsupportedKinds == {"invalid", "chan", "func", "interface", "unsafepointer"}

-----------------------------------------------------------------------------
(* The target types of the scenarios: the types of env_test.go and README.md, and
   variants of them.  StructFields gives reflect.Type.Field(i) of a struct type. *)

IntT == ScalarT("int")
StringT == ScalarT("string")
BoolT == ScalarT("bool")
\* a defined integer type no setter is registered for
LevelT == NamedT("int", "level")
\* type selfPointer *selfPointer
SelfPointerT == NamedT("ptr", "selfPointer")

StructFields(name) ==
    CASE name = "appConfig" ->            \* spec.md section 8, first example
            <<Fld("Name", StringT), Fld("Retries", IntT)>>
      [] name = "basicAppConfig" ->       \* env_test.go
            <<Fld("StringValue", StringT), Fld("IntValue", IntT), Fld("BoolValue", BoolT)>>
      [] name = "commonConfig" ->         \* README.md, embedded structures
            <<Fld("CommonString", StringT)>>
      [] name = "ptrNestedConfig" ->      \* README.md, nested structures
            <<Fld("AnArgument", StringT)>>
      [] name = "valueNestedConfig" ->
            <<Fld("AnotherArgument", IntT)>>
      [] name = "nestedAppConfig" ->      \* README.md: embedded, **ptr and value members
            <<Embedded("commonConfig", StructT("commonConfig")),
              Fld("Foo", PtrT(PtrT(StructT("ptrNestedConfig")))),
              Fld("Bar", StructT("valueNestedConfig"))>>
      [] name = "sliceConfig" ->          \* README.md, arrays and slices
            <<Fld("Items", SliceT(IntT))>>
      [] name = "arrayConfig" ->
            <<Fld("Arr", ArrayT(2, IntT))>>
      [] name = "cacheConfig" ->          \* spec.md section 8, third example
            <<Fld("Cache", MapT(StringT, IntT))>>
      [] name = "peersConfig" ->          \* env_test.go MapToStructPtr
            <<Fld("Peers", MapT(IntT, PtrT(StructT("appConfig"))))>>
      [] name = "recordsConfig" ->        \* a map of records held by value
            <<Fld("Records", MapT(StringT, StructT("appConfig")))>>
      [] name = "recursiveAppConfig" ->   \* env_test.go
            <<Fld("Config", PtrT(PtrT(PtrT(PtrT(PtrT(StructT("recursiveAppConfig")))))))>>
      [] name = "recursiveEmbedded" ->    \* the self reference is an embedded member
            <<Fld("Name", StringT),
              Embedded("recursiveEmbedded", PtrT(StructT("recursiveEmbedded")))>>
      [] name = "recursiveTagged" ->      \* the self reference carries the noexpand tag
            <<Fld("Name", StringT),
              Tagged("Self", PtrT(StructT("recursiveTagged")), noExpand)>>
      [] name = "recursiveAfterSlice" ->  \* a sequence precedes the self reference
            <<Fld("Items", SliceT(IntT)),
              Fld("Self", PtrT(StructT("recursiveAfterSlice")))>>
      [] name = "loopStructureA" ->       \* env_test.go
            <<Fld("Inner", PtrT(StructT("loopStructureB")))>>
      [] name = "loopStructureB" ->
            <<Fld("Inner", PtrT(StructT("loopStructureA")))>>
      [] name = "loopAfterSliceA" ->      \* a sequence precedes the mutual reference
            <<Fld("Items", SliceT(IntT)),
              Fld("Inner", PtrT(StructT("loopAfterSliceB")))>>
      [] name = "loopAfterSliceB" ->
            <<Fld("Inner", PtrT(StructT("loopAfterSliceA")))>>
      [] name = "loopTaggedA" ->          \* the mutual reference carries the noexpand tag
            <<Fld("Name", StringT),
              Tagged("Inner", PtrT(StructT("loopTaggedB")), noExpand)>>
      [] name = "loopTaggedB" ->
            <<Fld("Inner", PtrT(StructT("loopTaggedA")))>>
      [] name = "handlerConfig" ->        \* a member of an unsupported kind
            <<Fld("Name", StringT), Fld("Handler", PtrT(ScalarT("func")))>>
      [] name = "nestedConfig" ->         \* env_test.go
            <<Fld("NestedValue", StringT)>>
      [] name = "testAppConfig" ->        \* env_test.go, the target of TestAssignValues
            <<Embedded("nestedConfig", StructT("nestedConfig")),
              Fld("StringValue", StringT),
              Fld("OtherStringValue", StringT),
              Fld("PtrToValue", PtrT(StringT)),
              Fld("PtrPtrToValue", PtrT(PtrT(StringT))),
              Fld("StructValue", StructT("basicAppConfig")),
              Fld("PtrToStruct", PtrT(StructT("testAppConfig"))),
              Fld("PtrPtrPtrToStruct", PtrT(PtrT(PtrT(StructT("testAppConfig"))))),
              Fld("SliceToValue", SliceT(StringT)),
              Fld("SliceToStructValue", SliceT(StructT("basicAppConfig"))),
              Fld("SliceToStructPtr", SliceT(PtrT(StructT("testAppConfig")))),
              Fld("ArrayToValue", ArrayT(10, StringT)),
              Fld("ArrayToPtrValue", ArrayT(10, PtrT(StringT))),
              Fld("ArrayToPtrStruct", ArrayT(10, PtrT(StructT("testAppConfig")))),
              Fld("MapToStructPtr", MapT(IntT, PtrT(StructT("testAppConfig"))))>>
      [] name = "embeddedConfig" ->       \* env_test.go
            <<Fld("EmbeddedValue", StringT)>>
      [] name = "anotherConfigStruct" ->  \* env_test.go
            <<Embedded("embeddedConfig", StructT("embeddedConfig")),
              Fld("StringValue", StringT), Fld("IntValue", IntT)>>
      [] name = "ifaceConfig" ->          \* env_test.go WithEmbeddedIface
            <<Embedded("Yoloer", NamedT("interface", "Yoloer")),
              Fld("StringValue", StringT)>>
      [] name = "levelConfig" ->          \* a leaf of a type without setter between two others
            <<Fld("Name", StringT), Fld("Level", LevelT), Fld("Retries", IntT)>>
      [] name = "noExpandConfig" ->       \* env_test.go yetAnotherConfigStruct, on int and string
            <<Tagged("Items", SliceT(StringT), noExpand),
              Tagged("Count", PtrT(IntT), noExpand),
              Tagged("Deep", PtrT(PtrT(IntT)), noExpand),
              Tagged("OtherConfig", PtrT(StructT("anotherConfigStruct")), noExpand)>>
      [] name = "groupsConfig" ->         \* a map of sequences
            <<Fld("Groups", MapT(StringT, SliceT(IntT)))>>
      [] name = "barConfig" ->
            <<Fld("Bar", StringT)>>
      [] name = "collidingConfig" ->      \* field names that differ in case or in nesting only
            <<Fld("Name", StringT), Fld("NAME", StringT),
              Fld("FooBar", StringT), Fld("Foo", StructT("barConfig"))>>
      [] name = "eventsConfig" ->         \* Events chan int
            <<Fld("Name", StringT), Fld("Events", ScalarT("chan"))>>
      [] name = "anyConfig" ->            \* Any interface{}, not embedded
            <<Fld("Any", ScalarT("interface")), Fld("Name", StringT)>>
      [] name = "rawConfig" ->            \* Inner.Raw **unsafe.Pointer
            <<Fld("Name", StringT), Fld("Inner", PtrT(StructT("rawInner")))>>
      [] name = "ptrEmbeddedConfig" ->    \* README.md's embedded member, behind a pointer
            <<Embedded("commonConfig", PtrT(StructT("commonConfig"))), Fld("Name", StringT)>>
      [] name = "selfPointerConfig" ->    \* a member of a pointer type that points to itself
            <<Fld("Name", StringT), Fld("Link", SelfPointerT)>>
      [] name = "treeConfig" ->           \* a record that holds a sequence of itself
            <<Fld("Name", StringT), Fld("Children", SliceT(StructT("treeConfig")))>>
      [] name = "shadowConfig" ->         \* the parent declares a name of its embedded member
            <<Embedded("commonConfig", StructT("commonConfig")), Fld("CommonString", StringT)>>
      [] name = "twinsConfig" ->          \* two embedded members declare the same name
            <<Embedded("commonConfig", StructT("commonConfig")),
              Embedded("otherCommon", StructT("otherCommon")), Fld("Name", StringT)>>
      [] name = "otherCommon" ->
            <<Fld("CommonString", StringT)>>
      [] name = "gridConfig" ->           \* leaves four segments deep, below two sequences
            <<Fld("Name", StringT), Fld("Grid", StructT("rowsConfig"))>>
      [] name = "rowsConfig" ->
            <<Fld("Rows", SliceT(SliceT(IntT)))>>
      [] name = "outerConfig" ->          \* leaves four segments deep, below three records
            <<Fld("Middle", StructT("middleConfig"))>>
      [] name = "middleConfig" ->
            <<Fld("Inner", StructT("innerConfig"))>>
      [] name = "innerConfig" ->
            <<Fld("Leaf", StructT("appConfig"))>>
      [] name = "rawInner" ->
            <<Fld("Raw", PtrT(PtrT(ScalarT("unsafepointer"))))>>
      [] OTHER -> <<>>

-----------------------------------------------------------------------------
(* The environment and the key codec *)

\* os.Environ(): one "name=value" string per variable
Environ(e) == [i \in 1..Len(e) |-> e[i].name \o "=" \o e[i].value]

\* os.LookupEnv(name): <<value>> when the variable is defined, <<>> otherwise
LookupEnv(e, name) ==
    IF \E i \in 1..Len(e) : e[i].name = name
    THEN <<e[CHOOSE i \in 1..Len(e) : e[i].name = name].value>>
    ELSE <<>>

RECURSIVE FlattenWords(_)
FlattenWords(path) ==
    IF Len(path) = 0 THEN <<>>
    ELSE CamelcaseSplit(path[1]) \o FlattenWords(Tail(path))

\* envVarFromPath were the joined words left in the case of the field names
envVarFromPathCaseKept(c, currentPath) ==
    StringsJoin(FlattenWords(IF c.prefix # "" THEN <<c.prefix>> \o currentPath
                             ELSE currentPath),
                c.separator)

envVarFromPath(c, currentPath) ==
    LET p == IF c.prefix # "" THEN <<c.prefix>> \o currentPath ELSE currentPath
    IN  ToUpper(StringsJoin(FlattenWords(p), c.separator))

envVarsWithPrefix(e, prefix) ==
    LET names == [i \in 1..Len(e) |-> StringsSplit(Environ(e)[i], "=")[1]]
    IN  SelectSeq(names, LAMBDA varName : HasPrefix(varName, prefix))

\* strings.Split(...)[0]: <<first piece>>, or <<>> where indexing an empty result panics
FirstPiece(s, sep) ==
    LET parts == StringsSplit(s, sep)
    IN  IF Len(parts) = 0 THEN <<>> ELSE <<parts[1]>>

\* [panic, keys]: panic when strings.Split returned no piece for some variable
NextPieces(c, prefix, envVars) ==
    [i \in 1..Len(envVars) |->
        FirstPiece(TrimPrefix(envVars[i], prefix \o c.separator), c.separator)]

KeysOfPieces(c, prefix, pieces) ==
    IF \E i \in 1..Len(pieces) : pieces[i] = <<>>
    THEN [panic |-> TRUE, keys |-> <<>>]
    ELSE [panic |-> FALSE,
          keys |-> [i \in 1..Len(pieces) |-> prefix \o c.separator \o pieces[i][1]]]

nextLevelKeys(c, prefix, envVars) == KeysOfPieces(c, prefix, NextPieces(c, prefix, envVars))

\* <<key>>, or <<>> where indexing an empty strings.Split result panics
LowerPiece(piece) == IF piece = <<>> THEN <<>> ELSE <<ToLower(piece[1])>>

keyFromEnvVar(c, fullVar, prefix) ==
    LowerPiece(FirstPiece(TrimPrefix(fullVar, prefix \o c.separator), c.separator))

RECURSIVE unique(_)
unique(in) ==
    IF Len(in) = 0 THEN <<>>
    ELSE LET front == unique(SubSeq(in, 1, Len(in) - 1))
             v == in[Len(in)]
         IN  IF \E i \in 1..Len(front) : front[i] = v THEN front ELSE Append(front, v)

\* indirectedType were a single pointer level removed
indirectedTypeOnce(elemType) ==
    IF elemType.kind = "ptr" THEN Elem(elemType) ELSE elemType

RECURSIVE indirectedType(_)
indirectedType(elemType) ==
    IF elemType.kind = "ptr" THEN indirectedType(Elem(elemType)) ELSE elemType

-----------------------------------------------------------------------------
(* The discovery pass.  A result is [err, values, reads]: the error ("none" for
   nil; "panic" when the Go runtime aborts the call), the discovered envValues
   and the number of reads of the environment made before returning. *)

Found(vs, n) == [err |-> "none", values |-> vs, reads |-> n]
Failed(why, vs, n) == [err |-> why, values |-> vs, reads |-> n]

\* loadValue were an undefined variable read as the empty string
loadValueEmptyWhenAbsent(c, e, fieldPath) ==
    LET variableName == envVarFromPath(c, fieldPath)
        value == LookupEnv(e, variableName)
    IN  IF value = <<>> THEN Found(<<[StrValue |-> "", Path |-> fieldPath]>>, 1)
        ELSE Found(<<[StrValue |-> value[1], Path |-> fieldPath]>>, 1)

\* [v, reads]: v is <<envValue>> when the variable of fieldPath is defined, <<>> for nil
loadValue(c, e, fieldPath) ==
    LET variableName == envVarFromPath(c, fieldPath)
        value == LookupEnv(e, variableName)
    IN  IF value = <<>> THEN Found(<<>>, 1)
        ELSE Found(<<[StrValue |-> value[1], Path |-> fieldPath]>>, 1)

\* res = append(res, values...): the values and reads of r, then those of rest
Appended(r, rest) ==
    IF rest.err # "none" THEN Failed(rest.err, <<>>, r.reads + rest.reads)
    ELSE Found(r.values \o rest.values, r.reads + rest.reads)

\* analyzeIndexedType returns what it has gathered with the error
AppendedKeys(r, rest) ==
    [err |-> rest.err, values |-> r.values \o rest.values, reads |-> r.reads + rest.reads]

RECURSIVE analyzeStruct(_, _, _, _)
RECURSIVE analyzeFields(_, _, _, _, _)
RECURSIVE analyzeValue(_, _, _, _)
RECURSIVE analyzeIndexedType(_, _, _, _)
RECURSIVE analyzeKeys(_, _, _, _, _, _, _)

\* analyzeField were embedded members skipped
analyzeFieldSkippingEmbedded(c, e, configType, currentPath, field) ==
    IF field.type.kind = "ptr" /\ indirectedType(field.type) = configType
    THEN Failed("recursive", <<>>, 0)
    ELSE IF field.anonymous THEN Found(<<>>, 0)
    ELSE IF field.hasTag
    THEN IF field.tag = noExpand THEN loadValue(c, e, Append(currentPath, field.name))
         ELSE Found(<<>>, 0)
    ELSE analyzeValue(c, e, field.type, Append(currentPath, field.name))

\* analyzeField were an embedded member analysed as a named field is
analyzeFieldNamingEmbedded(c, e, configType, currentPath, field) ==
    IF field.type.kind = "ptr" /\ indirectedType(field.type) = configType
    THEN Failed("recursive", <<>>, 0)
    ELSE IF field.hasTag
    THEN IF field.tag = noExpand THEN loadValue(c, e, Append(currentPath, field.name))
         ELSE Found(<<>>, 0)
    ELSE analyzeValue(c, e, field.type, Append(currentPath, field.name))

\* the body of the loop of analyzeStruct for one field
analyzeField(c, e, configType, currentPath, field) ==
    IF field.type.kind = "ptr" /\ indirectedType(field.type) = configType
    THEN Failed("recursive", <<>>, 0)
    ELSE IF field.anonymous
    THEN IF field.type.kind = "interface" THEN Found(<<>>, 0)
         ELSE analyzeStruct(c, e, field.type, currentPath)
    ELSE IF field.hasTag
    THEN IF field.tag = noExpand THEN loadValue(c, e, Append(currentPath, field.name))
         ELSE Found(<<>>, 0)
    ELSE analyzeValue(c, e, field.type, Append(currentPath, field.name))

\* the rest of the loop after field i gave r: an error ends it
analyzeNextFields(c, e, configType, currentPath, i, r) ==
    IF r.err # "none" THEN Failed(r.err, <<>>, r.reads)
    ELSE Appended(r, analyzeFields(c, e, configType, currentPath, i + 1))

\* the loop of analyzeStruct from field i on
analyzeFields(c, e, configType, currentPath, i) ==
    IF i > Len(StructFields(configType.name)) THEN Found(<<>>, 0)
    ELSE analyzeNextFields(c, e, configType, currentPath, i,
             analyzeField(c, e, configType, currentPath, StructFields(configType.name)[i]))

\* reflect's NumField panics on a type that is not a struct
analyzeStruct(c, e, configType, currentPath) ==
    IF configType.kind # "struct" THEN Failed("panic", <<>>, 0)
    ELSE analyzeFields(c, e, configType, currentPath, 1)

\* analyzeValue were a value of an unsupported kind passed over
analyzeValueSkippingUnsupported(c, e, valType, fieldPath) ==
    IF Len(fieldPath) > c.maxDepth THEN Failed("depth", <<>>, 0)
    ELSE IF valType.kind \in {"array", "slice", "map"}
         THEN analyzeIndexedType(c, e, valType, fieldPath)
    ELSE IF valType.kind = "ptr" THEN analyzeValue(c, e, Elem(valType), fieldPath)
    ELSE IF valType.kind = "struct" THEN analyzeStruct(c, e, valType, fieldPath)
    ELSE IF valType.kind \in UnsupportedKinds THEN Found(<<>>, 0)
    ELSE loadValue(c, e, fieldPath)

\* analyzeValue were a path as long as the maximum depth refused too
analyzeValueOffByOne(c, e, valType, fieldPath) ==
    IF Len(fieldPath) >= c.maxDepth THEN Failed("depth", <<>>, 0)
    ELSE IF valType.kind \in {"array", "slice", "map"}
         THEN analyzeIndexedType(c, e, valType, fieldPath)
    ELSE IF valType.kind = "ptr" THEN analyzeValue(c, e, Elem(valType), fieldPath)
    ELSE IF valType.kind = "struct" THEN analyzeStruct(c, e, valType, fieldPath)
    ELSE IF valType.kind \in UnsupportedKinds THEN Failed("unsupported", <<>>, 0)
    ELSE loadValue(c, e, fieldPath)

analyzeValue(c, e, valType, fieldPath) ==
    IF Len(fieldPath) > c.maxDepth THEN Failed("depth", <<>>, 0)
    ELSE IF valType.kind \in {"array", "slice", "map"}
         THEN analyzeIndexedType(c, e, valType, fieldPath)
    ELSE IF valType.kind = "ptr" THEN analyzeValue(c, e, Elem(valType), fieldPath)
    ELSE IF valType.kind = "struct" THEN analyzeStruct(c, e, valType, fieldPath)
    ELSE IF valType.kind \in UnsupportedKinds THEN Failed("unsupported", <<>>, 0)
    ELSE loadValue(c, e, fieldPath)

\* analyzeKey were a key that is no index passed over
analyzeKeySkippingBadIndex(c, e, valType, fieldPath, k, index) ==
    IF k = <<>> THEN Failed("panic", <<>>, 0)
    ELSE IF valType.kind \in {"array", "slice"} /\ ~index.ok THEN Found(<<>>, 0)
    ELSE IF valType.kind = "array" /\ IndexGeq(index, valType.len) THEN Failed("bounds", <<>>, 0)
    ELSE analyzeValue(c, e, Elem(valType), Append(fieldPath, k[1]))

\* the body of the loop of analyzeIndexedType for one key (k is <<key>>, index its
\* strconv.ParseUint)
analyzeKey(c, e, valType, fieldPath, k, index) ==
    IF k = <<>> THEN Failed("panic", <<>>, 0)
    ELSE IF valType.kind \in {"array", "slice"} /\ ~index.ok THEN Failed("index", <<>>, 0)
    ELSE IF valType.kind = "array" /\ IndexGeq(index, valType.len) THEN Failed("bounds", <<>>, 0)
    ELSE analyzeValue(c, e, Elem(valType), Append(fieldPath, k[1]))

\* the rest of the loop after key j gave r
analyzeNextKeys(c, e, valType, fieldPath, prefix, nextKeys, j, r) ==
    IF r.err # "none" THEN Failed(r.err, <<>>, r.reads)
    ELSE AppendedKeys(r, analyzeKeys(c, e, valType, fieldPath, prefix, nextKeys, j + 1))

KeyOrEmpty(k) == IF k = <<>> THEN "" ELSE k[1]

\* the loop of analyzeIndexedType over nextKeys from position j on
analyzeKeys(c, e, valType, fieldPath, prefix, nextKeys, j) ==
    IF j > Len(nextKeys) THEN Found(<<>>, 0)
    ELSE analyzeNextKeys(c, e, valType, fieldPath, prefix, nextKeys, j,
             analyzeKey(c, e, valType, fieldPath,
                        keyFromEnvVar(c, nextKeys[j], prefix),
                        ParseUint(KeyOrEmpty(keyFromEnvVar(c, nextKeys[j], prefix)))))

\* the loop over the keys next gives; os.Environ is one read
analyzeNextLevel(c, e, valType, fieldPath, prefix, next) ==
    IF next.panic THEN Failed("panic", <<>>, 1)
    ELSE AppendedKeys(Found(<<>>, 1),
                      analyzeKeys(c, e, valType, fieldPath, prefix, unique(next.keys), 1))

analyzeIndexedType(c, e, valType, fieldPath) ==
    analyzeNextLevel(c, e, valType, fieldPath, envVarFromPath(c, fieldPath),
                     nextLevelKeys(c, envVarFromPath(c, fieldPath),
                                   envVarsWithPrefix(e, envVarFromPath(c, fieldPath))))

-----------------------------------------------------------------------------
(* reflect.Value.  A struct is a function from field names to values, a pointer
   is <<>> (nil) or <<pointee>>, a slice or array the sequence of its elements,
   a map [isnil, m] with m a function from keys to elements, a scalar its value.
   A flag fl = [addr, ro] travels with a value as in package reflect: addr is
   flagAddr, ro is "" or the read-only flag "embed" / "sticky". *)

RECURSIVE Repeat(_, _)
Repeat(v, n) == IF n = 0 THEN <<>> ELSE Append(Repeat(v, n - 1), v)

RECURSIVE Zero(_)
RECURSIVE ZeroFields(_, _)
\* the zero struct of fields fs[i..]
ZeroFields(fs, i) ==
    IF i > Len(fs) THEN <<>>
    ELSE (fs[i].name :> Zero(fs[i].type)) @@ ZeroFields(fs, i + 1)

Zero(t) ==
    CASE t.kind = "struct" -> ZeroFields(StructFields(t.name), 1)
      [] t.kind = "array" -> Repeat(Zero(Elem(t)), t.len)
      [] t.kind = "map" -> [isnil |-> TRUE, m |-> <<>>]
      [] t.kind = "int" -> 0
      [] t.kind = "string" -> ""
      [] t.kind = "bool" -> FALSE
      [] OTHER -> <<>>          \* nil pointer, slice, func, chan, interface

Settable == [addr |-> TRUE, ro |-> ""]          \* reflect.New(t).Elem()
CanSet(fl) == fl.addr /\ fl.ro = ""

IsExported(name) == Len(name) > 0 /\ IsUpper(Char(name, 1))

\* Value.Field: flagStickyRO and flagAddr are inherited, an unexported field is read-only
FieldFlag(fl, field) ==
    [addr |-> fl.addr,
     ro |-> IF fl.ro = "sticky" THEN "sticky"
            ELSE IF IsExported(field.name) THEN ""
            ELSE IF field.anonymous THEN "embed" ELSE "sticky"]
ElemFlag(fl) == [addr |-> TRUE, ro |-> fl.ro]                      \* Value.Elem of a pointer
SliceIndexFlag(fl) == [addr |-> TRUE, ro |-> IF fl.ro = "" THEN "" ELSE "sticky"]
ArrayIndexFlag(fl) == [addr |-> fl.addr, ro |-> IF fl.ro = "" THEN "" ELSE "sticky"]
MapIndexFlag(fl) == [addr |-> FALSE, ro |-> IF fl.ro = "" THEN "" ELSE "sticky"]

-----------------------------------------------------------------------------
(* The setters of setter.LoadBasicTypes the scenarios use.  A conversion is
   [ok, v].  Raw values of the scenarios are short: digit separators ("_") and
   values beyond nine digits are outside the model. *)

HexDigits == "0123456789abcdef"
HexSet == {Char(HexDigits, i) : i \in 1..16}
\* the value of a digit, 36 for a character that is none
DigitOf(ch) == IF ToLowerChar(ch) \in HexSet THEN PosIn(ToLowerChar(ch), HexDigits) - 1 ELSE 36

RECURSIVE BaseValue(_, _)
BaseValue(s, base) ==
    IF Len(s) = 0 THEN 0
    ELSE base * BaseValue(SubSeq(s, 1, Len(s) - 1), base) + DigitOf(Char(s, Len(s)))

\* strconv.ParseInt(strValue, 0, 64)
ParseInt(strValue) ==
    LET neg == Len(strValue) > 0 /\ Char(strValue, 1) = "-"
        signed == Len(strValue) > 0 /\ Char(strValue, 1) \in {"-", "+"}
        s == IF signed THEN SubSeq(strValue, 2, Len(strValue)) ELSE strValue
        p == IF Len(s) >= 2 THEN ToLower(SubSeq(s, 1, 2)) ELSE ""
        base == IF p = "0x" THEN 16 ELSE IF p = "0b" THEN 2
                ELSE IF p = "0o" \/ (Len(s) >= 2 /\ Char(s, 1) = "0") THEN 8 ELSE 10
        d == IF p \in {"0x", "0b", "0o"} THEN SubSeq(s, 3, Len(s))
             ELSE IF base = 8 THEN SubSeq(s, 2, Len(s)) ELSE s
        valid == /\ Len(d) > 0
                 /\ Len(d) <= 9
                 /\ \A i \in 1..Len(d) : DigitOf(Char(d, i)) \in 0..(base - 1)
    IN  IF valid THEN [ok |-> TRUE, v |-> IF neg THEN 0 - BaseValue(d, base) ELSE BaseValue(d, base)]
        ELSE [ok |-> FALSE, v |-> 0]

\* strconv.ParseBool
ParseBool(strValue) ==
    IF strValue \in {"1", "t", "T", "TRUE", "true", "True"} THEN [ok |-> TRUE, v |-> TRUE]
    ELSE IF strValue \in {"0", "f", "F", "FALSE", "false", "False"} THEN [ok |-> TRUE, v |-> FALSE]
    ELSE [ok |-> FALSE, v |-> FALSE]

setInt(strValue) == ParseInt(strValue)
setString(strValue) == [ok |-> TRUE, v |-> strValue]
setBool(strValue) == ParseBool(strValue)

\* the custom setter of TestLoadConfigNoExpand for []string
sliceOfStringSetter(strValue) == [ok |-> TRUE, v |-> StringsSplit(strValue, ",")]

\* the types setter.LoadBasicTypes registers, among those of the scenarios
LoadBasicTypes == {IntT, StringT, BoolT}

\* the registry of TestLoadConfigNoExpand
NoExpandSetters == LoadBasicTypes \cup {SliceT(StringT)}

\* Setter.Set(strValue, value) of the setter registered for type t
SetterSet(t, strValue) ==
    CASE t = IntT -> setInt(strValue)
      [] t = StringT -> setString(strValue)
      [] t = BoolT -> setBool(strValue)
      [] t = SliceT(StringT) -> sliceOfStringSetter(strValue)
      [] OTHER -> [ok |-> FALSE, v |-> <<>>]

-----------------------------------------------------------------------------
(* reflect's FieldByName: the field of that name at the shallowest embedding
   depth, found only when it is the single match of that depth.  A match is
   the chain of StructFields leading to it. *)

EmbeddedStruct(field) ==
    /\ field.anonymous
    /\ \/ field.type.kind = "struct"
       \/ field.type.kind = "ptr" /\ Elem(field.type).kind = "struct"

RECURSIVE FieldMatches(_, _, _)
FieldMatches(t, name, d) ==
    LET fs == StructFields(t.name)
    IN  IF d = 0 THEN {<<fs[i]>> : i \in {j \in 1..Len(fs) : fs[j].name = name}}
        ELSE UNION {{<<fs[i]>> \o m : m \in FieldMatches(indirectedType(fs[i].type), name, d - 1)}
                        : i \in {j \in 1..Len(fs) : EmbeddedStruct(fs[j])}}

FieldByName(t, name) ==
    LET ds == {d \in 0..MaxEmbed : FieldMatches(t, name, d) # {}}
    IN  IF ds = {} THEN [ok |-> FALSE, chain |-> <<>>]
        ELSE LET d == CHOOSE x \in ds : \A y \in ds : x <= y
                 ms == FieldMatches(t, name, d)
             IN  IF Cardinality(ms) = 1 THEN [ok |-> TRUE, chain |-> CHOOSE m \in ms : TRUE]
                 ELSE [ok |-> FALSE, chain |-> <<>>]

\* Value.FieldByName along a chain: [panic, v, fl]; walking through a nil embedded
\* pointer panics
RECURSIVE ChainGet(_, _, _)
ChainGet(val, fl, chain) ==
    LET f == chain[1]
        v1 == val[f.name]
        fl1 == FieldFlag(fl, f)
    IN  IF Len(chain) = 1 THEN [panic |-> FALSE, v |-> v1, fl |-> fl1]
        ELSE IF f.type.kind = "ptr"
             THEN IF v1 = <<>> THEN [panic |-> TRUE, v |-> v1, fl |-> fl1]
                  ELSE ChainGet(v1[1], ElemFlag(fl1), Tail(chain))
             ELSE ChainGet(v1, fl1, Tail(chain))

\* val with the field at the end of the chain replaced by new
RECURSIVE ChainPut(_, _, _)
ChainPut(val, chain, new) ==
    LET f == chain[1]
    IN  IF Len(chain) = 1 THEN (f.name :> new) @@ val
        ELSE IF f.type.kind = "ptr"
             THEN (f.name :> <<ChainPut(val[f.name][1], Tail(chain), new)>>) @@ val
             ELSE (f.name :> ChainPut(val[f.name], Tail(chain), new)) @@ val

-----------------------------------------------------------------------------
(* The assignment pass.  A result is [err, val, news]: the error, the value as the
   call leaves it (mutations made before an error stay) and the number of
   pointers the call has set to a new instance (val.Set(reflect.New(...))). *)

Assigned(v) == [err |-> "none", val |-> v, news |-> 0]
Refused(why, v) == [err |-> why, val |-> v, news |-> 0]

RECURSIVE Wrap(_, _)
Wrap(v, levels) == IF levels = 0 THEN v ELSE <<Wrap(v, levels - 1)>>

\* the pointer(s) allocate walked through, around the value r leaves
Wrapped(r, a) == [err |-> r.err, val |-> Wrap(r.val, a.levels), news |-> r.news + a.news]

Allocated(v, t, fl, n, k) ==
    [err |-> "none", val |-> v, type |-> t, fl |-> fl, levels |-> n, news |-> k]
Deeper(a) == [a EXCEPT !.levels = @ + 1, !.news = @ + 1]

\* [err, val, type, fl, levels, news]: the value reached, its type and flag, the
\* number of pointers walked through and how many of them were set to a new
\* instance; Value.Set on a value that cannot be set panics
RECURSIVE allocate(_, _, _)

\* allocate were a new instance set whether the pointer is nil or not
allocateAlwaysNew(val, valType, fl) ==
    IF valType.kind # "ptr" THEN Allocated(val, valType, fl, 0, 0)
    ELSE IF ~CanSet(fl) THEN [Allocated(val, valType, fl, 0, 0) EXCEPT !.err = "panic"]
    ELSE IF Elem(valType).kind = "ptr" THEN Deeper(allocate(<<>>, Elem(valType), ElemFlag(fl)))
    ELSE Allocated(Zero(Elem(valType)), Elem(valType), ElemFlag(fl), 1, 1)

allocate(val, valType, fl) ==
    IF valType.kind # "ptr" THEN Allocated(val, valType, fl, 0, 0)
    ELSE IF val # <<>> THEN Allocated(val[1], Elem(valType), ElemFlag(fl), 1, 0)
    ELSE IF ~CanSet(fl) THEN [Allocated(val, valType, fl, 0, 0) EXCEPT !.err = "panic"]
    ELSE IF Elem(valType).kind = "ptr" THEN Deeper(allocate(<<>>, Elem(valType), ElemFlag(fl)))
    ELSE Allocated(Zero(Elem(valType)), Elem(valType), ElemFlag(fl), 1, 1)

\* setter.Set(strValue, value) gave s
SetResult(s, value) == IF s.ok THEN Assigned(s.v) ELSE Refused("convert", value)

setValue(c, value, valueType, strValue, fl) ==
    IF ~CanSet(fl) THEN Refused("cannotset", value)
    ELSE IF valueType \notin c.setters THEN Refused("nosetter", value)
    ELSE SetResult(SetterSet(valueType, strValue), value)

RECURSIVE assignValue(_, _, _, _, _, _)
RECURSIVE assignToStruct(_, _, _, _, _, _)
RECURSIVE assignToSlice(_, _, _, _, _, _)
RECURSIVE assignToArray(_, _, _, _, _, _)
RECURSIVE assignToMap(_, _, _, _, _, _)

\* the Ptr case of assignValue once allocate gave a
assignAllocated(c, val, a, currentPath, strValue) ==
    IF a.err # "none" THEN Refused(a.err, val)
    ELSE Wrapped(assignValue(c, a.val, a.type, currentPath, strValue, a.fl), a)

assignValue(c, val, valType, currentPath, strValue, fl) ==
    IF valType.kind = "ptr"
    THEN assignAllocated(c, val, allocate(val, valType, fl), currentPath, strValue)
    ELSE IF valType.kind = "struct" THEN assignToStruct(c, val, valType, currentPath, strValue, fl)
    ELSE IF valType.kind = "slice" THEN assignToSlice(c, val, valType, currentPath, strValue, fl)
    ELSE IF valType.kind = "array" THEN assignToArray(c, val, valType, currentPath, strValue, fl)
    ELSE IF valType.kind = "map" THEN assignToMap(c, val, valType, currentPath, strValue, fl)
    ELSE IF valType.kind \in UnsupportedKinds THEN Refused("unsupported", val)
    ELSE setValue(c, val, valType, strValue, fl)

\* the struct with the field at the end of the chain as r leaves it
FieldPut(val, chain, r) == [r EXCEPT !.val = ChainPut(val, chain, r.val)]

\* the noexpand branch of assignToStruct once allocate gave a
setAllocated(c, value, a, strValue) ==
    IF a.err # "none" THEN Refused(a.err, value)
    ELSE Wrapped(setValue(c, a.val, a.type, strValue, a.fl), a)

\* assignToStruct once the field is found: structField its StructField, g its value
assignToField(c, val, chain, structField, g, currentPath, strValue) ==
    IF g.panic THEN Refused("panic", val)
    ELSE IF structField.hasTag /\ structField.tag = noExpand
    THEN FieldPut(val, chain,
                  setAllocated(c, g.v, allocate(g.v, structField.type, g.fl), strValue))
    ELSE FieldPut(val, chain,
                  assignValue(c, g.v, structField.type, Tail(currentPath), strValue, g.fl))

\* assignToStruct after valType.FieldByName(fieldName) gave found
assignToFound(c, val, found, currentPath, strValue, fl) ==
    IF ~found.ok THEN Refused("nofield", val)
    ELSE assignToField(c, val, found.chain, found.chain[Len(found.chain)],
                       ChainGet(val, fl, found.chain), currentPath, strValue)

\* popBack's p[0] panics on an empty path
assignToStruct(c, val, valType, currentPath, strValue, fl) ==
    IF Len(currentPath) = 0 THEN Refused("panic", val)
    ELSE assignToFound(c, val, FieldByName(valType, currentPath[1]), currentPath, strValue, fl)

\* the element at index as r leaves it; no append: index < slice.Len()
ElemPut(seq, index, r) == [r EXCEPT !.val = [seq EXCEPT ![index.val + 1] = r.val]]

\* slice.Set(reflect.Append(slice, elemValue)) after the new element took r;
\* Value.Set panics on a slice that cannot be set
ElemAppend(slice, r, fl) ==
    IF r.err # "none" THEN [r EXCEPT !.val = slice]
    ELSE IF ~CanSet(fl) THEN [r EXCEPT !.err = "panic", !.val = slice]
    ELSE [r EXCEPT !.val = Append(slice, r.val)]

\* assignToSlice after strconv.ParseUint gave index; Value.Index panics on a
\* negative index
assignToIndex(c, slice, elemType, index, currentPath, strValue, fl) ==
    IF ~index.ok THEN Refused("parse", slice)
    ELSE IF IndexLess(index, Len(slice))
    THEN IF ~IndexValid(index, Len(slice)) THEN Refused("panic", slice)
         ELSE ElemPut(slice, index,
                      assignValue(c, slice[index.val + 1], elemType, Tail(currentPath),
                                  strValue, SliceIndexFlag(fl)))
    ELSE ElemAppend(slice,
                    assignValue(c, Zero(elemType), elemType, Tail(currentPath), strValue,
                                Settable),
                    fl)

assignToSlice(c, slice, sliceType, currentPath, strValue, fl) ==
    IF Len(currentPath) = 0 THEN Refused("panic", slice)
    ELSE assignToIndex(c, slice, Elem(sliceType), ParseUint(currentPath[1]), currentPath,
                       strValue, fl)

\* assignToArray after strconv.ParseUint gave index
assignToArrayIndex(c, array, elemType, index, currentPath, strValue, fl) ==
    IF ~index.ok THEN Refused("parse", array)
    ELSE IF IndexGeq(index, Len(array)) THEN Refused("overflow", array)
    ELSE IF ~IndexValid(index, Len(array)) THEN Refused("panic", array)
    ELSE ElemPut(array, index,
                 assignValue(c, array[index.val + 1], elemType, Tail(currentPath), strValue,
                             ArrayIndexFlag(fl)))

assignToArray(c, array, arrayType, currentPath, strValue, fl) ==
    IF Len(currentPath) = 0 THEN Refused("panic", array)
    ELSE assignToArrayIndex(c, array, Elem(arrayType), ParseUint(currentPath[1]), currentPath,
                            strValue, fl)

\* reflect.MakeMap when the map is nil
MadeMap(mapValue) == IF mapValue.isnil THEN [isnil |-> FALSE, m |-> <<>>] ELSE mapValue

\* mapValue.SetMapIndex(keyValue, elemValue) after the element took r: an element
\* that was in the map keeps what r changed behind its pointers even on an error;
\* SetMapIndex panics on a read-only map
MapPut(made, key, present, r, fl) ==
    IF r.err # "none"
    THEN [r EXCEPT !.val = IF present THEN [isnil |-> FALSE, m |-> (key :> r.val) @@ made.m]
                           ELSE made]
    ELSE IF fl.ro # "" THEN [r EXCEPT !.err = "panic", !.val = made]
    ELSE [r EXCEPT !.val = [isnil |-> FALSE, m |-> (key :> r.val) @@ made.m]]

\* assignToMap once the key is converted and the map made
assignToKey(c, made, elemType, key, currentPath, strValue, fl) ==
    IF key \in DOMAIN made.m
    THEN MapPut(made, key, TRUE,
                assignValue(c, made.m[key], elemType, Tail(currentPath), strValue,
                            MapIndexFlag(fl)),
                fl)
    ELSE MapPut(made, key, FALSE,
                assignValue(c, Zero(elemType), elemType, Tail(currentPath), strValue,
                            Settable),
                fl)

\* assignToMap after setValue(keyValue, keyString) gave keyValue; Value.Set panics
\* on a nil map that cannot be set
assignToMapKey(c, mapValue, mapType, keyValue, currentPath, strValue, fl) ==
    IF keyValue.err # "none" THEN Refused(keyValue.err, mapValue)
    ELSE IF mapValue.isnil /\ ~CanSet(fl) THEN Refused("panic", mapValue)
    ELSE assignToKey(c, MadeMap(mapValue), Elem(mapType), keyValue.val, currentPath,
                     strValue, fl)

assignToMap(c, mapValue, mapType, currentPath, strValue, fl) ==
    IF Len(currentPath) = 0 THEN Refused("panic", mapValue)
    ELSE assignToMapKey(c, mapValue, mapType,
                        setValue(c, Zero(Key(mapType)), Key(mapType), currentPath[1], Settable),
                        currentPath, strValue, fl)

-----------------------------------------------------------------------------
(* Loaders and scenarios.  A scenario is a target type, a loader built by New or
   NewWithSettersAndDepth, and the variables the environment may hold. *)

DefaultDepth == 10

NewWithSettersAndDepth(prefix, separator, setters, maxDepth) ==
    [prefix |-> prefix, separator |-> separator, setters |-> setters, maxDepth |-> maxDepth]

New(prefix, separator) ==
    NewWithSettersAndDepth(prefix, separator, LoadBasicTypes, DefaultDepth)

Var(n, v) == [name |-> n, value |-> v]
Scenario(t, c, vs) == [type |-> StructT(t), cfg |-> c, vars |-> vs]

Scenarios ==
    { Scenario("appConfig", New("APP", "_"),
               <<Var("APP_NAME", "svc"), Var("APP_RETRIES", "3"), Var("NAME", "x"),
                 Var("APP_RETRIES_MAX", "x")>>),
      Scenario("appConfig", New("", "_"),
               <<Var("NAME", "svc"), Var("RETRIES", "x"), Var("APP_NAME", "y")>>),
      Scenario("appConfig", New("APP", ""),
               <<Var("APP_NAME", "svc"), Var("APPNAME", "svc"), Var("APPRETRIES", "3")>>),
      Scenario("basicAppConfig", New("TEST", "_"),
               <<Var("TEST_STRING_VALUE", "a"), Var("TEST_INT_VALUE", "-7"),
                 Var("TEST_BOOL_VALUE", "T"), Var("TEST_INT_VALUE_MAX", "9")>>),
      Scenario("nestedAppConfig", New("", "_"),
               <<Var("COMMON_STRING", "a"), Var("FOO_AN_ARGUMENT", "b"),
                 Var("BAR_ANOTHER_ARGUMENT", "7"), Var("FOO", "c")>>),
      Scenario("nestedAppConfig", NewWithSettersAndDepth("", "_", LoadBasicTypes, 2),
               <<Var("COMMON_STRING", "a"), Var("FOO_AN_ARGUMENT", "b"),
                 Var("BAR_ANOTHER_ARGUMENT", "7")>>),
      Scenario("nestedAppConfig", NewWithSettersAndDepth("", "_", LoadBasicTypes, 1),
               <<Var("COMMON_STRING", "a"), Var("FOO_AN_ARGUMENT", "b")>>),
      Scenario("sliceConfig", New("", "_"),
               <<Var("ITEMS_0", "10"), Var("ITEMS_1", "11"), Var("ITEMS_2", "12"),
                 Var("ITEMS_X", "13")>>),
      Scenario("sliceConfig", New("", ""),
               <<Var("ITEMS_0", "10"), Var("ITEMS0", "10"), Var("ITEMS", "11")>>),
      Scenario("arrayConfig", New("", "_"),
               <<Var("ARR_0", "5"), Var("ARR_1", "6"), Var("ARR_2", "7"), Var("ARR_ONE", "8"),
                 Var("ARR_9223372036854775808", "9")>>),
      Scenario("cacheConfig", New("", "_"),
               <<Var("CACHE_FOO", "1"), Var("CACHE_BAR", "2"), Var("CACHE_FOO1", "3"),
                 Var("CACHE_BAZ", "x")>>),
      Scenario("peersConfig", New("", "_"),
               <<Var("PEERS_1_NAME", "a"), Var("PEERS_1_RETRIES", "4"),
                 Var("PEERS_2_NAME", "b"), Var("PEERS_01_NAME", "c")>>),
      Scenario("recordsConfig", New("", "_"),
               <<Var("RECORDS_A_NAME", "a"), Var("RECORDS_A_RETRIES", "1"),
                 Var("RECORDS_B_NAME", "b")>>),
      Scenario("recursiveAppConfig", NewWithSettersAndDepth("", "_", LoadBasicTypes, 2),
               <<Var("CONFIG", "1"), Var("CONFIG_CONFIG", "2")>>),
      Scenario("recursiveEmbedded", New("", "_"),
               <<Var("NAME", "a"), Var("RECURSIVE_EMBEDDED", "b")>>),
      Scenario("recursiveTagged", New("", "_"),
               <<Var("NAME", "a"), Var("SELF", "b")>>),
      Scenario("recursiveAfterSlice", New("", "_"),
               <<Var("ITEMS_0", "1"), Var("ITEMS_X", "2"), Var("SELF", "3")>>),
      Scenario("loopStructureA", New("", "_"),
               <<Var("INNER", "1"), Var("INNER_INNER", "2")>>),
      Scenario("loopStructureA", NewWithSettersAndDepth("", "_", LoadBasicTypes, 0),
               <<Var("INNER", "1")>>),
      Scenario("loopAfterSliceA", NewWithSettersAndDepth("", "_", LoadBasicTypes, 3),
               <<Var("ITEMS_0", "1"), Var("ITEMS_X", "2")>>),
      Scenario("loopTaggedA", New("", "_"),
               <<Var("NAME", "a"), Var("INNER", "b")>>),
      Scenario("handlerConfig", New("", "_"),
               <<Var("NAME", "a"), Var("HANDLER", "b")>>),
      Scenario("basicAppConfig", New("", "_"),
               <<Var("STRING_VALUE", "a"), Var("INT_VALUE", "x"), Var("BOOL_VALUE", "T")>>),
      Scenario("levelConfig", New("", "_"),
               <<Var("NAME", "a"), Var("LEVEL", "2"), Var("RETRIES", "3")>>),
      Scenario("anotherConfigStruct", New("", "_"),
               <<Var("EMBEDDED_VALUE", "e"), Var("STRING_VALUE", "s"), Var("INT_VALUE", "4"),
                 Var("EMBEDDED_CONFIG_EMBEDDED_VALUE", "z")>>),
      Scenario("ifaceConfig", New("", "_"),
               <<Var("STRING_VALUE", "s"), Var("YOLOER", "y")>>),
      Scenario("noExpandConfig",
               NewWithSettersAndDepth("", "_", NoExpandSetters, DefaultDepth),
               <<Var("ITEMS", "a,b"), Var("COUNT", "5"), Var("DEEP", "6"),
                 Var("OTHER_CONFIG", "x"), Var("ITEMS_0", "z")>>),
      Scenario("collidingConfig", New("", "_"),
               <<Var("NAME", "n"), Var("FOO_BAR", "f"), Var("FOO", "g")>>) }

\* a map holding the entries of m
MapOf(m) == [isnil |-> FALSE, m |-> m]

\* the instances a caller fills with its own values before calling Load
Prefilled(name) ==
    CASE name = "appConfig" -> {[Name |-> "dflt", Retries |-> 5]}
      [] name = "basicAppConfig" -> {[StringValue |-> "dflt", IntValue |-> 5, BoolValue |-> TRUE]}
      [] name = "nestedAppConfig" ->
            {[commonConfig |-> [CommonString |-> "dflt"],
              Foo |-> << << [AnArgument |-> "dflt"] >> >>,
              Bar |-> [AnotherArgument |-> 5]],
             [commonConfig |-> [CommonString |-> ""],
              Foo |-> << <<>> >>,
              Bar |-> [AnotherArgument |-> 0]]}
      [] name = "sliceConfig" -> {[Items |-> <<1, 2>>]}
      [] name = "arrayConfig" -> {[Arr |-> <<3, 4>>]}
      [] name = "cacheConfig" -> {[Cache |-> MapOf("foo" :> 9)]}
      [] name = "peersConfig" ->
            {[Peers |-> MapOf(1 :> <<[Name |-> "dflt", Retries |-> 5]>>)]}
      [] name = "recordsConfig" ->
            {[Records |-> MapOf("a" :> [Name |-> "dflt", Retries |-> 5])]}
      [] name = "anotherConfigStruct" ->
            {[embeddedConfig |-> [EmbeddedValue |-> "dflt"], StringValue |-> "dflt",
              IntValue |-> 5]}
      [] name = "levelConfig" -> {[Name |-> "dflt", Level |-> 1, Retries |-> 5]}
      [] name = "noExpandConfig" ->
            {[Items |-> <<"dflt">>, Count |-> <<1>>, Deep |-> << <<1>> >>,
              OtherConfig |-> <<>>]}
      [] OTHER -> {}

\* the targets a caller may hand to Load: the zero value or a filled instance
Targets(t) == {Zero(t)} \cup Prefilled(t.name)

\* the environments of a scenario: its variables, any MaxEnv of them at most, in any
\* order (a name is defined once)
EnvsOf(vs) ==
    LET picks == UNION {[1..n -> 1..Len(vs)] : n \in 0..MaxEnv}
        ok(p) == \A i, j \in DOMAIN p : i # j => vs[p[i]].name # vs[p[j]].name
    IN  {[i \in DOMAIN p |-> vs[p[i]]] : p \in {q \in picks : ok(q)}}

-----------------------------------------------------------------------------
(* Load *)

Loaded(why, v, k, n) == [err |-> why, val |-> v, assigned |-> k, news |-> n]

\* the result of the rest of the loop, after a value that set r.news pointers
Counted(r, rest) == [rest EXCEPT !.news = @ + r.news]

RECURSIVE assignValues(_, _, _, _, _)

\* assignNextValues were the loop to go on after an error and return it at the end
assignNextValuesPastError(c, r, configType, values, i) ==
    IF r.err # "none"
    THEN [assignValues(c, r.val, configType, values, i + 1) EXCEPT !.err = r.err]
    ELSE Counted(r, assignValues(c, r.val, configType, values, i + 1))

\* the rest of the loop of assignValues after values[i] gave r: an error ends it
assignNextValues(c, r, configType, values, i) ==
    IF r.err # "none" THEN Loaded(r.err, r.val, i, r.news)
    ELSE Counted(r, assignValues(c, r.val, configType, values, i + 1))

\* the record v with every nil map among its fields fs[i..] made
RECURSIVE WithMapsMade(_, _, _)
WithMapsMade(v, fs, i) ==
    IF i > Len(fs) THEN <<>>
    ELSE (fs[i].name :> (IF fs[i].type.kind = "map" THEN MadeMap(v[fs[i].name])
                         ELSE v[fs[i].name]))
         @@ WithMapsMade(v, fs, i + 1)

\* assignValues were every map of the target made once the values are assigned
assignValuesMakingMaps(c, configVal, configType, values, i) ==
    IF i > Len(values)
    THEN Loaded("none", WithMapsMade(configVal, StructFields(configType.name), 1),
                Len(values), 0)
    ELSE assignNextValues(c, assignValue(c, configVal, configType, values[i].Path,
                                         values[i].StrValue, Settable),
                          configType, values, i)

\* assignValues were the variable of each value looked up again when it is assigned
assignValuesLookingUpAgain(c, configVal, configType, values, i) ==
    IF i > Len(values) THEN Loaded("none", configVal, Len(values), 0)
    ELSE assignNextValues(c, assignValue(c, configVal, configType, values[i].Path,
                                         IF LookupEnv(env, envVarFromPath(c, values[i].Path)) = <<>>
                                         THEN values[i].StrValue
                                         ELSE LookupEnv(env, envVarFromPath(c, values[i].Path))[1],
                                         Settable),
                          configType, values, i)

\* the loop of assignValues from values[i] on; assigned counts the calls of assignValue
assignValues(c, configVal, configType, values, i) ==
    IF i > Len(values) THEN Loaded("none", configVal, Len(values), 0)
    ELSE assignNextValues(c, assignValue(c, configVal, configType, values[i].Path,
                                         values[i].StrValue, Settable),
                          configType, values, i)

\* what Load may be given: &config, a copy of config, nil, a nil *config
Args == {"ptr", "value", "nil", "nilptr"}

\* LoadDiscover were the kind of the argument checked after the discovery pass
LoadDiscoverBeforeKindCheck(c, e, a, configType) ==
    IF a \in {"value", "nil"} THEN Failed("usage", <<>>, analyzeStruct(c, e, configType, <<>>).reads)
    ELSE IF a = "nilptr" THEN Failed("panic", <<>>, 0)
    ELSE analyzeStruct(c, e, configType, <<>>)

\* Load up to its call of assignValues: the kind check, then the discovery pass.
\* configVal.Elem().Type() panics on the zero Value a nil pointer gives.
LoadDiscover(c, e, a, configType) ==
    IF a \in {"value", "nil"} THEN Failed("usage", <<>>, 0)
    ELSE IF a = "nilptr" THEN Failed("panic", <<>>, 0)
    ELSE analyzeStruct(c, e, configType, <<>>)

\* Load after discovery gave d
LoadAssign(c, d, configVal, configType) ==
    IF d.err # "none" THEN Loaded(d.err, configVal, 0, 0)
    ELSE assignValues(c, configVal, configType, d.values, 1)

\* the record of one call of Load: its argument, the error it returned ("none" for
\* nil, "panic" when it did not return), the target before and after, the reads
\* of the environment, the values discovered, the calls of assignValue and the
\* pointers set to a new instance
Returned(a, configVal, d, r) ==
    [arg |-> a, err |-> r.err, before |-> configVal, after |-> r.val,
     reads |-> d.reads, values |-> d.values, assigned |-> r.assigned, news |-> r.news]

LoadWith(c, a, d, configVal, configType) ==
    Returned(a, configVal, d, LoadAssign(c, d, configVal, configType))

\* LoadCall were each field assigned as soon as it is discovered: acc is the record
\* of the call so far, d the discovery of the next field, r its assignment
LoadFieldMerged(acc, d, r) ==
    [acc EXCEPT !.err = r.err, !.after = r.val, !.reads = @ + d.reads,
                !.values = @ \o d.values, !.assigned = @ + r.assigned,
                !.news = @ + r.news]

LoadFieldAssigned(c, acc, d, configType) ==
    LoadFieldMerged(acc, d, LoadAssign(c, d, acc.after, configType))

RECURSIVE LoadFields(_, _, _, _, _)
LoadFieldsNext(c, e, configType, i, acc) ==
    IF acc.err # "none" THEN acc ELSE LoadFields(c, e, configType, i + 1, acc)

LoadFields(c, e, configType, i, acc) ==
    IF i > Len(StructFields(configType.name)) THEN acc
    ELSE LoadFieldsNext(c, e, configType, i,
             LoadFieldAssigned(c, acc,
                 analyzeField(c, e, configType, <<>>, StructFields(configType.name)[i]),
                 configType))

LoadInterleaved(c, e, a, configVal, configType) ==
    IF a # "ptr" THEN LoadWith(c, a, LoadDiscover(c, e, a, configType), configVal, configType)
    ELSE LoadFields(c, e, configType, 1,
                    Returned(a, configVal, Found(<<>>, 0), Loaded("none", configVal, 0, 0)))

LoadCall(c, e, a, configVal, configType) ==
    LoadWith(c, a, LoadDiscover(c, e, a, configType), configVal, configType)

-----------------------------------------------------------------------------
(* The program: a caller that calls Load on one target, MaxLoads times at most *)

Init ==
    /\ scn \in Scenarios
    /\ env \in EnvsOf(scn.vars)
    /\ target \in Targets(scn.type)
    /\ pc = "idle"
    /\ rets = <<>>
    /\ callerPath = <<>>
    /\ calls = <<>>
    /\ heap = NoHeap

Last(s) == s[Len(s)]

Load(a) ==
    /\ pc = "idle"
    /\ Len(rets) < MaxLoads
    /\ rets' = Append(rets, LoadCall(scn.cfg, env, a, target, scn.type))
    /\ target' = Last(rets').after
    /\ pc' = IF Last(rets').err = "panic" THEN "panic" ELSE "idle"
    /\ UNCHANGED <<scn, env, callerPath, calls, heap>>

Next == \E a \in Args : Load(a)

Spec == Init /\ [][Next]_vars

-----------------------------------------------------------------------------
(* The key codec on its own: a caller holding a path derives its key
   (envVarFromPath) and partitions the environment under it (the first three
   statements of analyzeIndexedType and the keyFromEnvVar of its loop), MaxCalls
   times at most *)

CodecLoaders ==
    { New("YOUPI", "_"), New("", "_"), New("YOUPI", ""), New("", ""), New("MyApp", "_") }

CodecPaths ==
    { <<>>, <<"Foo">>, <<"Foo", "IamGroot", "IAmBatman">>, <<"Cache">>, <<"Cache", "foo1">> }

CodecVars ==
    <<Var("CACHE_FOO", "1"), Var("CACHE_FOO1", "2"), Var("CACHE_BAR_BAZ", "3"),
      Var("YOUPI_CACHE_FOO", "4"), Var("CACHE", "5")>>

\* what the caller's slice holds once envVarFromPath has returned: the function
\* rebinds its parameter to a slice grown from the fresh []string{e.prefix} and
\* writes no element of the slice it was given
PathAfter(c, currentPath) == currentPath

NoKeys == [panic |-> FALSE, keys |-> <<>>]

\* nextKeys of analyzeIndexedType, and the key its loop takes from each of them
KeysOf(c, prefix, next) ==
    IF next.panic THEN <<>>
    ELSE [j \in 1..Len(unique(next.keys)) |-> keyFromEnvVar(c, unique(next.keys)[j], prefix)]

Derived(c, currentPath) ==
    [op |-> "envVarFromPath", path |-> currentPath, key |-> envVarFromPath(c, currentPath),
     next |-> NoKeys, tokens |-> <<>>]

Partitioned(c, fieldPath, prefix, next) ==
    [op |-> "nextLevelKeys", path |-> fieldPath, key |-> prefix,
     next |-> next, tokens |-> KeysOf(c, prefix, next)]

NextLevelOf(c, e, fieldPath, prefix) ==
    Partitioned(c, fieldPath, prefix, nextLevelKeys(c, prefix, envVarsWithPrefix(e, prefix)))

CodecInit ==
    /\ scn \in {[type |-> StructT("cacheConfig"), cfg |-> c, vars |-> CodecVars] : c \in CodecLoaders}
    /\ env \in EnvsOf(scn.vars)
    /\ target = Zero(scn.type)
    /\ pc = "idle"
    /\ rets = <<>>
    /\ callerPath \in CodecPaths
    /\ calls = <<>>
    /\ heap = NoHeap

DeriveKey ==
    /\ Len(calls) < MaxCalls
    /\ calls' = Append(calls, Derived(scn.cfg, callerPath))
    /\ callerPath' = PathAfter(scn.cfg, callerPath)
    /\ UNCHANGED <<scn, env, target, pc, rets, heap>>

NextLevel ==
    /\ Len(calls) < MaxCalls
    /\ calls' = Append(calls, NextLevelOf(scn.cfg, env, callerPath,
                                          envVarFromPath(scn.cfg, callerPath)))
    /\ UNCHANGED <<scn, env, target, pc, rets, callerPath, heap>>

CodecNext == DeriveKey \/ NextLevel

CodecSpec == CodecInit /\ [][CodecNext]_vars

-----------------------------------------------------------------------------
(* The two passes on their own, as TestAnalyzeStruct and TestAssignValues call
   them: analyzeStruct on the type of the target, assignValues on the target with
   hand-built envValues, MaxPasses times at most *)

\* an envValue literal
Value(s, p) == [StrValue |-> s, Path |-> p]

PassScenario(t, c, vs, ls) == [type |-> StructT(t), cfg |-> c, vars |-> vs, lists |-> ls]

\* the Values of the cases of TestAssignValues, and variants of them
TestAppValues ==
    { <<Value("FOO", <<"PtrToStruct", "StringValue">>)>>,
      <<Value("BAR", <<"PtrToStruct", "OtherStringValue">>)>>,
      <<Value("FOO", <<"PtrPtrPtrToStruct", "StringValue">>)>>,
      <<Value("BAR", <<"PtrPtrPtrToStruct", "OtherStringValue">>)>>,
      <<Value("FOO", <<"PtrToStruct", "PtrPtrPtrToStruct", "PtrPtrToValue">>)>>,
      <<Value("FOO", <<"NestedValue">>)>>,
      <<Value("FOO", <<"SliceToValue", "0">>), Value("BAR", <<"SliceToValue", "1">>),
        Value("BIZ", <<"SliceToValue", "2">>)>>,
      <<Value("BUZ", <<"SliceToValue", "1">>)>>,
      <<Value("BUZ", <<"SliceToValue", "5">>)>>,
      <<Value("BUZ", <<"SliceToValue", "9223372036854775808">>)>>,
      <<Value("FOO", <<"SliceToStructPtr", "0", "StringValue">>),
        Value("BAR", <<"SliceToStructPtr", "1", "StringValue">>),
        Value("BIZ", <<"SliceToStructPtr", "2", "StringValue">>)>>,
      <<Value("BUZ", <<"SliceToStructPtr", "2", "OtherStringValue">>)>>,
      <<Value("BIZ", <<"SliceToStructPtr", "NotInt", "StringValue">>)>>,
      <<Value("FOO", <<"ArrayToValue", "0">>), Value("BAR", <<"ArrayToValue", "1">>),
        Value("BIZ", <<"ArrayToValue", "20">>)>>,
      <<Value("FOO", <<"ArrayToValue", "0">>), Value("BAR", <<"ArrayToValue", "Foo">>),
        Value("BIZ", <<"ArrayToValue", "2">>)>>,
      <<Value("FOO", <<"ArrayToValue", "0">>), Value("BAR", <<"ArrayToValue", "-1">>),
        Value("BIZ", <<"ArrayToValue", "2">>)>>,
      <<Value("FOO", <<"MapToStructPtr", "0", "StringValue">>),
        Value("BAR", <<"MapToStructPtr", "1", "StringValue">>)>>,
      <<Value("BUZ", <<"MapToStructPtr", "0", "OtherStringValue">>)>> }

SliceValues ==
    { <<Value("10", <<"Items", "0">>)>>,
      <<Value("11", <<"Items", "1">>)>>,
      <<Value("12", <<"Items", "2">>)>>,
      <<Value("13", <<"Items", "x">>)>>,
      <<Value("14", <<"Items", "-1">>)>>,
      <<Value("z", <<"Items", "0">>)>>,
      <<Value("10", <<"Items", "0">>), Value("13", <<"Items", "x">>),
        Value("11", <<"Items", "1">>)>> }

ArrayValues ==
    { <<Value("5", <<"Arr", "0">>)>>,
      <<Value("6", <<"Arr", "1">>)>>,
      <<Value("7", <<"Arr", "2">>)>>,
      <<Value("8", <<"Arr", "Foo">>)>>,
      <<Value("9", <<"Arr", "-1">>)>>,
      <<Value("5", <<"Arr", "0">>), Value("8", <<"Arr", "Foo">>),
        Value("6", <<"Arr", "1">>)>> }

GroupValues ==
    { <<Value("1", <<"Groups", "a", "0">>)>>,
      <<Value("2", <<"Groups", "a", "1">>)>>,
      <<Value("3", <<"Groups", "b", "0">>)>> }

PassScenarios ==
    { PassScenario("testAppConfig", New("", "_"), <<Var("NESTED_VALUE", "n")>>,
                   TestAppValues),
      PassScenario("sliceConfig", New("", "_"),
                   <<Var("ITEMS_0", "10"), Var("ITEMS_X", "13"), Var("ITEMS_-1", "14")>>,
                   SliceValues),
      PassScenario("arrayConfig", New("", "_"),
                   <<Var("ARR_0", "5"), Var("ARR_FOO", "8"), Var("ARR_-1", "9")>>,
                   ArrayValues),
      PassScenario("groupsConfig", New("", "_"),
                   <<Var("GROUPS_A_0", "1"), Var("GROUPS_A_X", "2")>>,
                   GroupValues) }

\* the record of one call of a pass, as Returned gives it for Load
Analyzed(configVal, d) ==
    [arg |-> "analyzeStruct", err |-> d.err, before |-> configVal, after |-> configVal,
     reads |-> d.reads, values |-> d.values, assigned |-> 0, news |-> 0]

AssignedValues(configVal, values, r) ==
    [arg |-> "assignValues", err |-> r.err, before |-> configVal, after |-> r.val,
     reads |-> 0, values |-> values, assigned |-> r.assigned, news |-> r.news]

PassInit ==
    /\ scn \in PassScenarios
    /\ env \in EnvsOf(scn.vars)
    /\ target = Zero(scn.type)
    /\ pc = "idle"
    /\ rets = <<>>
    /\ callerPath = <<>>
    /\ calls = <<>>
    /\ heap = NoHeap

AnalyzeStruct ==
    /\ pc = "idle"
    /\ Len(rets) < MaxPasses
    /\ rets' = Append(rets, Analyzed(target, analyzeStruct(scn.cfg, env, scn.type, <<>>)))
    /\ pc' = IF Last(rets').err = "panic" THEN "panic" ELSE "idle"
    /\ UNCHANGED <<scn, env, target, callerPath, calls, heap>>

AssignValues(values) ==
    /\ pc = "idle"
    /\ Len(rets) < MaxPasses
    /\ rets' = Append(rets, AssignedValues(target, values,
                                           assignValues(scn.cfg, target, scn.type, values, 1)))
    /\ target' = Last(rets').after
    /\ pc' = IF Last(rets').err = "panic" THEN "panic" ELSE "idle"
    /\ UNCHANGED <<scn, env, callerPath, calls, heap>>

PassNext == AnalyzeStruct \/ \E values \in scn.lists : AssignValues(values)

PassSpec == PassInit /\ [][PassNext]_vars

-----------------------------------------------------------------------------
(* A caller that uses Load and the two passes on target types at the edges of
   what the package supports *)

EdgeScenarios ==
    { PassScenario("handlerConfig", New("", "_"),
                   <<Var("NAME", "a"), Var("HANDLER", "b")>>,
                   { <<Value("b", <<"Handler">>)>>, <<Value("a", <<"Name">>)>> }),
      PassScenario("handlerConfig", NewWithSettersAndDepth("", "_", LoadBasicTypes, 0),
                   <<Var("NAME", "a")>>,
                   { <<Value("a", <<"Name">>)>> }),
      PassScenario("eventsConfig", New("", "_"),
                   <<Var("NAME", "a"), Var("EVENTS", "b")>>,
                   { <<Value("a", <<"Name">>), Value("b", <<"Events">>)>> }),
      PassScenario("anyConfig", New("", "_"),
                   <<Var("ANY", "b"), Var("NAME", "a")>>,
                   { <<Value("b", <<"Any">>)>> }),
      PassScenario("rawConfig", New("", "_"),
                   <<Var("NAME", "a"), Var("INNER_RAW", "b")>>,
                   { <<Value("b", <<"Inner", "Raw">>)>> }),
      PassScenario("ptrEmbeddedConfig", New("", "_"),
                   <<Var("COMMON_STRING", "a"), Var("NAME", "n")>>,
                   { <<Value("n", <<"Name">>)>> }),
      PassScenario("anotherConfigStruct", New("", "_"),
                   <<Var("EMBEDDED_VALUE", "e"), Var("STRING_VALUE", "s")>>,
                   { <<Value("e", <<"EmbeddedValue">>)>> }),
      PassScenario("shadowConfig", New("", "_"),
                   <<Var("COMMON_STRING", "a")>>,
                   { <<Value("a", <<"CommonString">>)>> }),
      PassScenario("twinsConfig", New("", "_"),
                   <<Var("COMMON_STRING", "a"), Var("NAME", "n")>>,
                   { <<Value("a", <<"CommonString">>)>>, <<Value("n", <<"Name">>)>> }),
      PassScenario("sliceConfig", New("", "_"),
                   <<Var("ITEMS_0", "10"), Var("ITEMS", "1"), Var("ITEMSET", "2")>>,
                   { <<Value("10", <<"Items", "0">>)>> }),
      PassScenario("cacheConfig", New("", "_"),
                   <<Var("CACHE_FOO", "1"), Var("CACHE", "5"), Var("CACHED", "6")>>,
                   { <<Value("1", <<"Cache", "foo">>)>> }) }

EdgeInit ==
    /\ scn \in EdgeScenarios
    /\ env \in EnvsOf(scn.vars)
    /\ target \in Targets(scn.type)
    /\ pc = "idle"
    /\ rets = <<>>
    /\ callerPath = <<>>
    /\ calls = <<>>
    /\ heap = NoHeap

EdgeNext == Next \/ PassNext

EdgeSpec == EdgeInit /\ [][EdgeNext]_vars

-----------------------------------------------------------------------------
(* Load as its two passes, the environment being changed by the rest of the
   process between the return of analyzeStruct and the call of assignValues *)

SplitScenarios ==
    { Scenario("appConfig", New("", "_"),
               <<Var("NAME", "a"), Var("NAME", "b"), Var("RETRIES", "3"), Var("RETRIES", "x")>>),
      Scenario("sliceConfig", New("", "_"),
               <<Var("ITEMS_0", "10"), Var("ITEMS_0", "20"), Var("ITEMS_1", "11")>>),
      Scenario("nestedAppConfig", New("", "_"),
               <<Var("FOO_AN_ARGUMENT", "b"), Var("FOO_AN_ARGUMENT", "c"),
                 Var("COMMON_STRING", "a")>>) }

SplitInit ==
    /\ scn \in SplitScenarios
    /\ env \in EnvsOf(scn.vars)
    /\ target \in Targets(scn.type)
    /\ pc = "idle"
    /\ rets = <<>>
    /\ callerPath = <<>>
    /\ calls = <<>>
    /\ heap = NoHeap

\* discovery has returned without error and assignment has not started
BetweenPasses ==
    /\ rets # <<>>
    /\ Last(rets).arg = "analyzeStruct"
    /\ Last(rets).err = "none"

\* os.Setenv, os.Unsetenv called elsewhere in the process
Setenv(e) ==
    /\ BetweenPasses
    /\ e # env
    /\ env' = e
    /\ UNCHANGED <<scn, target, pc, rets, callerPath, calls, heap>>

\* return e.assignValues(configVal, configType, values)
AssignDiscovered ==
    /\ BetweenPasses
    /\ AssignValues(Last(rets).values)

SplitNext ==
    \/ rets = <<>> /\ AnalyzeStruct
    \/ \E e \in EnvsOf(scn.vars) : Setenv(e)
    \/ AssignDiscovered

SplitSpec == SplitInit /\ [][SplitNext]_vars

-----------------------------------------------------------------------------
(* Load one call at a time: calls is the stack of the calls that have not
   returned, the innermost last; rets holds the single record of the Load in
   progress, as Returned gives it.  A call of the discovery pass is a frame
   [op, type, path, i, sub, keys, prefix, ret]: i the position in the loop, sub
   the point reached in the body, ret the value the last callee returned.  An
   error unwinds the whole stack: every caller returns it as it gets it. *)

\* A path is a Go slice [array, len] of a backing array of the heap, whose
\* length is the capacity; array 0 is the empty array of []string{}.
EmptySlice == [array |-> 0, len |-> 0]
Cap(h, sl) == IF sl.array = 0 THEN 0 ELSE Len(h.arrays[sl.array])
Elems(h, sl) == IF sl.len = 0 THEN <<>> ELSE SubSeq(h.arrays[sl.array], 1, sl.len)

\* the capacity the runtime gives a slice of strings that outgrows capacity n
GrownCap(n) == IF n = 0 THEN 1 ELSE 2 * n

\* append(sl, x), as [heap, slice]: in place when the capacity allows, in a new
\* array holding a copy otherwise
appendPath(h, sl, x) ==
    IF sl.len < Cap(h, sl)
    THEN [heap |-> [h EXCEPT !.arrays[sl.array][sl.len + 1] = x],
          slice |-> [sl EXCEPT !.len = @ + 1]]
    ELSE [heap |-> [h EXCEPT !.arrays =
                        Append(@, Elems(h, sl) \o <<x>>
                                  \o [i \in 1..(GrownCap(sl.len) - sl.len - 1) |-> ""])],
          slice |-> [array |-> Len(h.arrays) + 1, len |-> sl.len + 1]]

\* clone were the slice itself
cloneSharing(h, sl) == [heap |-> h, slice |-> sl]

\* p.clone(), as [heap, slice]: make and copy
clone(h, sl) ==
    [heap |-> [h EXCEPT !.arrays = Append(@, Elems(h, sl))],
     slice |-> [array |-> Len(h.arrays) + 1, len |-> sl.len]]

\* a call of op on type t with the path p, held in the slice sl
Called(op, t, p, sl) ==
    [op |-> op, type |-> t, path |-> p, slice |-> sl, i |-> 1, sub |-> 0, keys |-> <<>>,
     prefix |-> "", ret |-> <<>>]

Frame(op, t, p) == Called(op, t, p, EmptySlice)

Top(stack) == stack[Len(stack)]
Pop(stack) == SubSeq(stack, 1, Len(stack) - 1)
SetTop(stack, f) == Append(Pop(stack), f)
Push(stack, f, callee) == Append(SetTop(stack, f), callee)

\* the callee returns r to the frame below it
Return(stack, r) == SetTop(Pop(stack), [Top(Pop(stack)) EXCEPT !.ret = r])

WalkedIn(h, stack, rec, where) == [calls |-> stack, rec |-> rec, pc |-> where, heap |-> h]
Walked(stack, rec, where) == WalkedIn(heap, stack, rec, where)

\* an error, or a panic, of the discovery pass: Load returns it
WalkFailed(rec, why) ==
    WalkedIn([heap EXCEPT !.paths = <<>>], <<>>, [rec EXCEPT !.err = why, !.values = <<>>],
             IF why = "panic" THEN "panic" ELSE "done")

\* loadValue in the walk, on the path fieldPath held in the slice sl of the heap
\* h: one read, and when the variable is defined the value, whose Path is the
\* clone of the slice
WalkLoaded(c, e, h, stack, rec, fieldPath, sl) ==
    IF loadValue(c, e, fieldPath).values = <<>>
    THEN WalkedIn(h, stack, [rec EXCEPT !.reads = @ + 1], "discover")
    ELSE WalkedIn([clone(h, sl).heap EXCEPT !.paths = Append(@, clone(h, sl).slice)],
                  stack,
                  [rec EXCEPT !.reads = @ + 1,
                              !.values = @ \o loadValue(c, e, fieldPath).values],
                  "discover")

\* one step of a call of indirectedType
stepIndirectedType(stack, rec, f) ==
    IF f.sub = 1 THEN Walked(Return(stack, f.ret), rec, "discover")
    ELSE IF f.type.kind = "ptr"
    THEN Walked(Push(stack, [f EXCEPT !.sub = 1], Frame("indirectedType", Elem(f.type), <<>>)),
                rec, "discover")
    ELSE Walked(Return(stack, <<f.type>>), rec, "discover")

\* the body of the loop of analyzeStruct for field: the check of a self reference
\* (sub 0, then 1 once indirectedType has returned), then the field itself (sub 2)
stepField(c, e, stack, rec, f, field) ==
    IF f.sub = 0
    THEN IF field.type.kind = "ptr"
         THEN Walked(Push(stack, [f EXCEPT !.sub = 1], Frame("indirectedType", field.type, <<>>)),
                     rec, "discover")
         ELSE Walked(SetTop(stack, [f EXCEPT !.sub = 2]), rec, "discover")
    ELSE IF f.sub = 1
    THEN IF f.ret = <<f.type>> THEN WalkFailed(rec, "recursive")
         ELSE Walked(SetTop(stack, [f EXCEPT !.sub = 2, !.ret = <<>>]), rec, "discover")
    ELSE IF field.anonymous
    THEN IF field.type.kind = "interface"
         THEN Walked(SetTop(stack, [f EXCEPT !.i = @ + 1, !.sub = 0]), rec, "discover")
         ELSE Walked(Push(stack, [f EXCEPT !.i = @ + 1, !.sub = 0],
                          Called("analyzeStruct", field.type, f.path, f.slice)),
                     rec, "discover")
    ELSE IF field.hasTag
    THEN IF field.tag = noExpand
         THEN WalkLoaded(c, e, appendPath(heap, f.slice, field.name).heap,
                         SetTop(stack, [f EXCEPT !.i = @ + 1, !.sub = 0]), rec,
                         Append(f.path, field.name),
                         appendPath(heap, f.slice, field.name).slice)
         ELSE WalkedIn(appendPath(heap, f.slice, field.name).heap,
                       SetTop(stack, [f EXCEPT !.i = @ + 1, !.sub = 0]), rec, "discover")
    ELSE WalkedIn(appendPath(heap, f.slice, field.name).heap,
                  Push(stack, [f EXCEPT !.i = @ + 1, !.sub = 0],
                       Called("analyzeValue", field.type, Append(f.path, field.name),
                              appendPath(heap, f.slice, field.name).slice)),
                  rec, "discover")

\* one step of a call of analyzeStruct; NumField panics on a type that is no struct
stepAnalyzeStruct(c, e, stack, rec, f) ==
    IF f.type.kind # "struct" THEN WalkFailed(rec, "panic")
    ELSE IF f.i > Len(StructFields(f.type.name)) THEN Walked(Pop(stack), rec, "discover")
    ELSE stepField(c, e, stack, rec, f, StructFields(f.type.name)[f.i])

\* one step of a call of analyzeValue: the call it makes (sub 0), then its return
stepAnalyzeValue(c, e, stack, rec, f) ==
    IF f.sub = 1 THEN Walked(Pop(stack), rec, "discover")
    ELSE IF Len(f.path) > c.maxDepth THEN WalkFailed(rec, "depth")
    ELSE IF f.type.kind \in {"array", "slice", "map"}
    THEN Walked(Push(stack, [f EXCEPT !.sub = 1],
                     Called("analyzeIndexedType", f.type, f.path, f.slice)),
                rec, "discover")
    ELSE IF f.type.kind = "ptr"
    THEN Walked(Push(stack, [f EXCEPT !.sub = 1],
                     Called("analyzeValue", Elem(f.type), f.path, f.slice)),
                rec, "discover")
    ELSE IF f.type.kind = "struct"
    THEN Walked(Push(stack, [f EXCEPT !.sub = 1],
                     Called("analyzeStruct", f.type, f.path, f.slice)),
                rec, "discover")
    ELSE IF f.type.kind \in UnsupportedKinds THEN WalkFailed(rec, "unsupported")
    ELSE WalkLoaded(c, e, heap, Pop(stack), rec, f.path, f.slice)

\* the first three statements of analyzeIndexedType once nextLevelKeys gave next
stepNextLevel(stack, rec, f, prefix, next) ==
    IF next.panic THEN WalkFailed([rec EXCEPT !.reads = @ + 1], "panic")
    ELSE Walked(SetTop(stack, [f EXCEPT !.sub = 1, !.keys = unique(next.keys),
                                        !.prefix = prefix]),
                [rec EXCEPT !.reads = @ + 1], "discover")

\* the body of the loop of analyzeIndexedType for the key k, index its ParseUint
stepKey(stack, rec, f, k, index) ==
    IF k = <<>> THEN WalkFailed(rec, "panic")
    ELSE IF f.type.kind \in {"array", "slice"} /\ ~index.ok THEN WalkFailed(rec, "index")
    ELSE IF f.type.kind = "array" /\ IndexGeq(index, f.type.len) THEN WalkFailed(rec, "bounds")
    ELSE WalkedIn(appendPath(heap, f.slice, k[1]).heap,
                  Push(stack, [f EXCEPT !.i = @ + 1],
                       Called("analyzeValue", Elem(f.type), Append(f.path, k[1]),
                              appendPath(heap, f.slice, k[1]).slice)),
                  rec, "discover")

\* one step of a call of analyzeIndexedType
stepAnalyzeIndexedType(c, e, stack, rec, f) ==
    IF f.sub = 0
    THEN stepNextLevel(stack, rec, f, envVarFromPath(c, f.path),
                       nextLevelKeys(c, envVarFromPath(c, f.path),
                                     envVarsWithPrefix(e, envVarFromPath(c, f.path))))
    ELSE IF f.i > Len(f.keys) THEN Walked(Pop(stack), rec, "discover")
    ELSE stepKey(stack, rec, f, keyFromEnvVar(c, f.keys[f.i], f.prefix),
                 ParseUint(KeyOrEmpty(keyFromEnvVar(c, f.keys[f.i], f.prefix))))

\* one step of the innermost call of the discovery pass
stepDiscover(c, e, stack, rec) ==
    CASE Top(stack).op = "indirectedType" -> stepIndirectedType(stack, rec, Top(stack))
      [] Top(stack).op = "analyzeStruct" -> stepAnalyzeStruct(c, e, stack, rec, Top(stack))
      [] Top(stack).op = "analyzeValue" -> stepAnalyzeValue(c, e, stack, rec, Top(stack))
      [] Top(stack).op = "analyzeIndexedType" ->
            stepAnalyzeIndexedType(c, e, stack, rec, Top(stack))

\* the assignment pass in the walk: a frame is a call of assignValue on the type
\* and the rest of the path it is given; the innermost call, which ends the
\* descent, leaves in the target what assignValue does for the whole path

\* the field assignToStruct descends into: <<field>>, or <<>> when it ends there
\* (popBack panics, no such field, or a field tagged noexpand)
EndOfChain(found) ==
    IF ~found.ok THEN <<>>
    ELSE IF found.chain[Len(found.chain)].hasTag /\ found.chain[Len(found.chain)].tag = noExpand
    THEN <<>>
    ELSE <<found.chain[Len(found.chain)]>>

DescentField(t, p) ==
    IF t.kind # "struct" \/ p = <<>> THEN <<>> ELSE EndOfChain(FieldByName(t, p[1]))

\* the discovered value i as assignValues reads it: its Path is what its slice
\* holds by now
ValueAt(rec, i) ==
    [StrValue |-> rec.values[i].StrValue, Path |-> Elems(heap, heap.paths[i])]

\* the innermost call has returned: the value rec.assigned is assigned, or its
\* error returned by Load
WalkAssigned(rec, r) ==
    Walked(<<>>, [rec EXCEPT !.err = r.err, !.after = r.val, !.news = @ + r.news],
           IF r.err = "panic" THEN "panic" ELSE IF r.err # "none" THEN "done" ELSE "assign")

\* one step of the innermost call of assignValue: descent is the field it
\* descends into (DescentField) and assigned what assignValue makes of the whole
\* path of the value
stepAssignValue(stack, rec, f, descent, assigned) ==
    IF f.type.kind = "ptr"
    THEN Walked(Push(stack, f, Frame("assignValue", Elem(f.type), f.path)), rec, "assign")
    ELSE IF descent # <<>>
    THEN Walked(Push(stack, f, Frame("assignValue", descent[1].type, Tail(f.path))),
                rec, "assign")
    ELSE IF f.type.kind \in {"array", "slice", "map"} /\ f.path # <<>>
    THEN Walked(Push(stack, f, Frame("assignValue", Elem(f.type), Tail(f.path))), rec, "assign")
    ELSE WalkAssigned(rec, assigned)

\* one step of the loop of assignValues: the call for the next value, or the end
stepAssignValues(rec) ==
    IF rec.assigned = Len(rec.values) THEN Walked(<<>>, rec, "done")
    ELSE Walked(<<Frame("assignValue", scn.type, ValueAt(rec, rec.assigned + 1).Path)>>,
                [rec EXCEPT !.assigned = @ + 1], "assign")

WalkScenarios ==
    { Scenario("appConfig", New("", "_"),
               <<Var("NAME", "svc"), Var("RETRIES", "3"), Var("RETRIES", "x")>>),
      Scenario("nestedAppConfig", New("", "_"),
               <<Var("COMMON_STRING", "a"), Var("FOO_AN_ARGUMENT", "b"),
                 Var("BAR_ANOTHER_ARGUMENT", "7")>>),
      Scenario("recursiveAppConfig", NewWithSettersAndDepth("", "_", LoadBasicTypes, 2),
               <<Var("CONFIG", "1")>>),
      Scenario("loopStructureA", NewWithSettersAndDepth("", "_", LoadBasicTypes, 3),
               <<Var("INNER", "1")>>),
      Scenario("treeConfig", NewWithSettersAndDepth("", "_", LoadBasicTypes, 3),
               <<Var("NAME", "r"), Var("CHILDREN_0_NAME", "a"),
                 Var("CHILDREN_0_CHILDREN_0_NAME", "b")>>),
      Scenario("peersConfig", New("", "_"),
               <<Var("PEERS_1_NAME", "a"), Var("PEERS_1_RETRIES", "4"),
                 Var("PEERS_X_NAME", "b")>>),
      Scenario("gridConfig", New("", "_"),
               <<Var("GRID_ROWS_0_0", "1"), Var("GRID_ROWS_0_1", "2"), Var("NAME", "g")>>),
      Scenario("outerConfig", New("", "_"),
               <<Var("MIDDLE_INNER_LEAF_NAME", "svc"), Var("MIDDLE_INNER_LEAF_RETRIES", "3")>>),
      Scenario("ptrEmbeddedConfig", New("", "_"),
               <<Var("COMMON_STRING", "a"), Var("NAME", "n")>>),
      Scenario("selfPointerConfig", New("", "_"),
               <<Var("NAME", "a"), Var("LINK", "b")>>) }

WalkInit ==
    /\ scn \in WalkScenarios
    /\ env \in EnvsOf(scn.vars)
    /\ target \in Targets(scn.type)
    /\ pc = "discover"
    /\ rets = <<Returned("ptr", target, Found(<<>>, 0), Loaded("none", target, 0, 0))>>
    /\ callerPath = <<>>
    /\ calls = <<Frame("analyzeStruct", scn.type, <<>>)>>
    /\ heap = NoHeap

\* the step n is taken as long as the stack has room for the call it makes; the
\* runtime ends the process (fatal error: stack overflow) when it has not
Stepped(n) ==
    /\ IF Len(n.calls) > MaxStack
       THEN /\ pc' = "fatal"
            /\ UNCHANGED <<calls, rets, target, heap>>
       ELSE /\ calls' = n.calls
            /\ rets' = <<n.rec>>
            /\ target' = n.rec.after
            /\ heap' = n.heap
            /\ pc' = IF n.pc = "discover" /\ n.calls = <<>> THEN "assign" ELSE n.pc
    /\ UNCHANGED <<scn, env, callerPath>>

DiscoverStep ==
    /\ pc = "discover"
    /\ \E n \in {stepDiscover(scn.cfg, env, calls, rets[1])} : Stepped(n)

AssignStep ==
    /\ pc = "assign"
    /\ \E rec \in {rets[1]} :
         IF calls = <<>> THEN Stepped(stepAssignValues(rec))
         ELSE \E f \in {Top(calls)} :
              \E descent \in {DescentField(f.type, f.path)} :
              \E assigned \in {assignValue(scn.cfg, rec.after, scn.type,
                                            ValueAt(rec, rec.assigned).Path,
                                            ValueAt(rec, rec.assigned).StrValue, Settable)} :
                  Stepped(stepAssignValue(calls, rec, f, descent, assigned))

WalkNext == DiscoverStep \/ AssignStep

\* Load runs in the goroutine of its caller, which goes on until it returns
WalkSpec == WalkInit /\ [][WalkNext]_vars /\ WF_vars(WalkNext)

-----------------------------------------------------------------------------
(* Properties of Load *)

Range(s) == {s[i] : i \in 1..Len(s)}

\* the calls of Load made with a pointer to the zero-valued target
FreshLoads == {i \in DOMAIN rets : rets[i].arg = "ptr" /\ rets[i].before = Zero(scn.type)}

\* record types without cycle made of scalar leaves, records held by value or
\* behind pointers, and embedded records
AcyclicRecords == {"appConfig", "basicAppConfig", "nestedAppConfig"}

\* the scalar leaves of such a type: [path, type]
RECURSIVE Leaves(_, _)
Leaves(t, p) ==
    IF t.kind = "ptr" THEN Leaves(Elem(t), p)
    ELSE IF t.kind = "struct"
    THEN UNION {IF f.anonymous THEN Leaves(f.type, p) ELSE Leaves(f.type, Append(p, f.name)) :
                f \in Range(StructFields(t.name))}
    ELSE {[path |-> p, type |-> t]}

\* reading the leaf at path p back from value v of type t, as config.Foo.Bar does:
\* <<leaf>>, or <<>> when a pointer on the way is nil
RECURSIVE ReadBack(_, _, _)
ReadBack(v, t, p) ==
    IF t.kind = "ptr" THEN IF v = <<>> THEN <<>> ELSE ReadBack(v[1], Elem(t), p)
    ELSE IF t.kind = "struct"
    THEN LET fs == Range(StructFields(t.name))
             own == {f \in fs : ~f.anonymous /\ f.name = p[1]}
             promoted == {f \in fs : f.anonymous /\ \E l \in Leaves(f.type, <<>>) : l.path = p}
         IN  IF own # {}
             THEN LET f == CHOOSE g \in own : TRUE IN ReadBack(v[f.name], f.type, Tail(p))
             ELSE LET f == CHOOSE g \in promoted : TRUE IN ReadBack(v[f.name], f.type, p)
    ELSE <<v>>

\* the raw value of the key derived from path p: <<value>> or <<>>
Raw(p) == LookupEnv(env, envVarFromPath(scn.cfg, p))

\* every leaf is within the depth limit and its key holds a value its setter accepts
FullEnv ==
    \A l \in Leaves(scn.type, <<>>) :
        /\ Len(l.path) <= scn.cfg.maxDepth
        /\ Raw(l.path) # <<>>
        /\ SetterSet(l.type, Raw(l.path)[1]).ok

\* C1: on an acyclic record type within the depth limit whose leaves all have their
\* key in the environment with a value the setter accepts, Load on the zero-valued
\* target returns no error and every leaf reads back as setter(raw value), the
\* pointers on the way allocated.
C1_FullLoad ==
    \A i \in FreshLoads :
        (scn.type.name \in AcyclicRecords /\ FullEnv) =>
            /\ rets[i].err = "none"
            /\ \A l \in Leaves(scn.type, <<>>) :
                   ReadBack(rets[i].after, scn.type, l.path)
                       = <<SetterSet(l.type, Raw(l.path)[1]).v>>

\* a full load of the record with an embedded member, a ** member and a value member
C1_Witness ==
    \E i \in FreshLoads :
        /\ scn.type.name = "nestedAppConfig"
        /\ FullEnv
        /\ rets[i].after.Foo = << << [AnArgument |-> "b"] >> >>
        /\ rets[i].after.commonConfig.CommonString = "a"
        /\ rets[i].after.Bar.AnotherArgument = 7

\* the calls of Load made with a pointer to the target
PtrLoads == {i \in DOMAIN rets : rets[i].arg = "ptr"}

EnvNames == {env[k].name : k \in DOMAIN env}

\* the value the int setter gives the variable of path p
IntOf(p) == setInt(Raw(p)[1]).v

\* C2: for a slice field of a zero-valued target whose keys at indices 0, 1 and 2
\* are present, Load gives a slice of length 3 whose element i holds the value of
\* the key at index i, in whatever order the environment enumerates the keys.
C2_SliceInIndexOrder ==
    \A i \in FreshLoads :
        (/\ scn.type.name = "sliceConfig"
         /\ scn.cfg.separator = "_"
         /\ EnvNames = {"ITEMS_0", "ITEMS_1", "ITEMS_2"}) =>
            /\ rets[i].err = "none"
            /\ rets[i].after.Items = <<IntOf(<<"Items", "0">>), IntOf(<<"Items", "1">>),
                                       IntOf(<<"Items", "2">>)>>

\* C3: Load is idempotent: a second Load on the target a first Load has filled from
\* the zero value returns the same result (no error if the first had none) and
\* leaves the instance as the first left it.
C3_LoadTwice ==
    \A i \in FreshLoads :
        (i + 1 \in PtrLoads /\ rets[i].err # "panic") =>
            /\ rets[i + 1].err = rets[i].err
            /\ rets[i + 1].after = rets[i].after

\* the errors the discovery pass returns
DiscoveryErrors == {"recursive", "depth", "index", "bounds", "unsupported"}

\* the result of the discovery pass of a Load of the target
Discovery == analyzeStruct(scn.cfg, env, scn.type, <<>>)

\* C4: when the discovery pass returns an error, Load returns that error, the
\* assignment pass is not started and the target is as it was before the call.
C4_DiscoveryErrorLeavesTarget ==
    \A i \in PtrLoads :
        Discovery.err \in DiscoveryErrors =>
            /\ rets[i].err = Discovery.err
            /\ rets[i].assigned = 0
            /\ rets[i].after = rets[i].before

\* discovery fails on the self reference after a key of the slice before it was found
C4_Witness ==
    \E i \in PtrLoads :
        /\ scn.type.name = "recursiveAfterSlice"
        /\ "ITEMS_0" \in EnvNames
        /\ rets[i].err = "recursive"
        /\ rets[i].after = Zero(scn.type)

\* the type a chain of pointers resolves to
RECURSIVE Resolved(_)
Resolved(t) == IF t.kind = "ptr" THEN Resolved(Elem(t)) ELSE t

FieldsOf(t) == StructFields(t.name)

\* the positions of the fields of record t that are pointers resolving to t itself
SelfFields(t) ==
    {k \in 1..Len(FieldsOf(t)) : FieldsOf(t)[k].type.kind = "ptr" /\ Resolved(FieldsOf(t)[k].type) = t}

Min(S) == CHOOSE x \in S : \A y \in S : x <= y

\* the error discovery meets in the fields of the target before position k: that of
\* the first field that fails, "none" when none does
EarlierFailure(k) ==
    LET failing == {j \in 1..(k - 1) :
                       analyzeField(scn.cfg, env, scn.type, <<>>, FieldsOf(scn.type)[j]).err # "none"}
    IN  IF failing = {} THEN "none"
        ELSE analyzeField(scn.cfg, env, scn.type, <<>>, FieldsOf(scn.type)[Min(failing)]).err

\* C5 as stated: a record type with a field that is a chain of pointers to that same
\* type makes discovery return the recursive-type error for every environment,
\* embedded or tagged field included, whatever fields precede it.
C5_AlwaysRecursiveError ==
    \A i \in PtrLoads : SelfFields(scn.type) # {} => rets[i].err = "recursive"

\* C5 amended: on such a type Load fails for every environment and leaves the target
\* untouched; the error is the recursive-type error unless discovery of a field
\* that precedes the self reference fails first, and then it is that error.
C5_SelfReferenceFails ==
    \A i \in PtrLoads :
        SelfFields(scn.type) # {} =>
            /\ rets[i].err # "none"
            /\ rets[i].after = rets[i].before
            /\ rets[i].err = IF EarlierFailure(Min(SelfFields(scn.type))) = "none"
                             THEN "recursive"
                             ELSE EarlierFailure(Min(SelfFields(scn.type)))

\* the recursive-type error after the fields before the self reference were discovered
C5_Witness ==
    \E i \in PtrLoads :
        /\ scn.type.name = "recursiveAfterSlice"
        /\ EnvNames = {"ITEMS_0", "SELF"}
        /\ rets[i].err = "recursive"

\* records that reference each other through a pointer field, and the position of
\* that field
MutualRecords == {"loopStructureA", "loopAfterSliceA", "loopTaggedA"}
LoopField == CHOOSE k \in 1..Len(FieldsOf(scn.type)) : FieldsOf(scn.type)[k].name = "Inner"

\* C6 as stated, second half: two record types that reference each other through
\* pointers always fail discovery with the depth-exceeded error.
C6_MutualAlwaysDepth ==
    \A i \in PtrLoads : scn.type.name \in MutualRecords => rets[i].err = "depth"

\* C6 amended: discovery returns the depth-exceeded error exactly when it comes to
\* a non-embedded, untagged path longer than the maximum depth (a path as long as it
\* is processed); so two record types that reference each other through
\* non-embedded, untagged pointer fields fail with the depth-exceeded error for
\* every environment and maximum depth, unless discovery of a field that precedes
\* the reference fails first.
C6_DepthGuard ==
    \A i \in PtrLoads :
        /\ scn.type.name \in AcyclicRecords =>
               (rets[i].err = "depth" <=>
                    \E l \in Leaves(scn.type, <<>>) : Len(l.path) > scn.cfg.maxDepth)
        /\ (/\ scn.type.name \in MutualRecords
            /\ ~FieldsOf(scn.type)[LoopField].hasTag
            /\ ~FieldsOf(scn.type)[LoopField].anonymous) =>
               rets[i].err = IF EarlierFailure(LoopField) = "none" THEN "depth"
                             ELSE EarlierFailure(LoopField)
        /\ rets[i].err = "depth" => rets[i].after = rets[i].before

\* the mutual reference is reached after a key of the slice before it was found
C6_Witness ==
    \E i \in PtrLoads :
        /\ scn.type.name = "loopAfterSliceA"
        /\ "ITEMS_0" \in EnvNames
        /\ EarlierFailure(LoopField) = "none"
        /\ rets[i].err = "depth"

\* C7: Load given something that is not a pointer (a copy of the record, or nil)
\* returns the usage error at once: the environment is neither looked up nor
\* enumerated, nothing is discovered or assigned, the target is as it was.
C7_ValueArgumentRefused ==
    \A i \in DOMAIN rets :
        rets[i].arg \in {"value", "nil"} =>
            /\ rets[i].err = "usage"
            /\ rets[i].reads = 0
            /\ rets[i].values = <<>>
            /\ rets[i].assigned = 0
            /\ rets[i].after = rets[i].before

\* a copy of a target an earlier Load has filled is refused
C7_Witness ==
    \E i \in DOMAIN rets :
        /\ rets[i].arg = "value"
        /\ rets[i].err = "usage"
        /\ rets[i].before # Zero(scn.type)
        /\ Len(env) > 0

\* C10: for a nil map field with scalar elements Load allocates the map and stores
\* one entry per variable <field key><separator><TOKEN>: its key the lower-cased
\* TOKEN converted by the setter of the key type, its value the converted raw
\* value (CACHE_FOO=1, CACHE_BAR=2 gives {foo: 1, bar: 2}).
C10_MapEntryPerToken ==
    \A i \in FreshLoads :
        (/\ scn.type.name = "cacheConfig"
         /\ scn.cfg.separator = "_"
         /\ Len(env) > 0
         /\ \A k \in DOMAIN env : HasPrefix(env[k].name, "CACHE_") /\ setInt(env[k].value).ok) =>
            /\ rets[i].err = "none"
            /\ ~rets[i].after.Cache.isnil
            /\ DOMAIN rets[i].after.Cache.m
                   = {setString(ToLower(TrimPrefix(env[k].name, "CACHE_"))).v : k \in DOMAIN env}
            /\ \A k \in DOMAIN env :
                   rets[i].after.Cache.m[ToLower(TrimPrefix(env[k].name, "CACHE_"))]
                       = setInt(env[k].value).v

\* reading the value at path p back from value v of type t, as the expression
\* config.Peers[1].Name does: <<value>>, or <<>> when a pointer on the way is nil or
\* a key or an index on the way is not there
RECURSIVE Read(_, _, _)
Read(v, t, p) ==
    IF t.kind = "ptr" THEN IF v = <<>> THEN <<>> ELSE Read(v[1], Elem(t), p)
    ELSE IF p = <<>> THEN <<v>>
    ELSE IF t.kind = "struct"
    THEN LET own == {f \in Range(FieldsOf(t)) : ~f.anonymous /\ f.name = p[1]}
             promoted == {f \in Range(FieldsOf(t)) :
                              f.anonymous /\ f.type.kind = "struct"
                                          /\ \E g \in Range(FieldsOf(f.type)) : g.name = p[1]}
         IN  IF own # {}
             THEN LET f == CHOOSE g \in own : TRUE IN Read(v[f.name], f.type, Tail(p))
             ELSE IF promoted # {}
             THEN LET f == CHOOSE g \in promoted : TRUE IN Read(v[f.name], f.type, p)
             ELSE <<>>
    ELSE IF t.kind = "map"
    THEN IF SetterSet(Key(t), p[1]).ok /\ SetterSet(Key(t), p[1]).v \in DOMAIN v.m
         THEN Read(v.m[SetterSet(Key(t), p[1]).v], Elem(t), Tail(p))
         ELSE <<>>
    ELSE IF t.kind \in {"slice", "array"}
    THEN IF ParseUint(p[1]).ok /\ IndexValid(ParseUint(p[1]), Len(v))
         THEN Read(v[ParseUint(p[1]).val + 1], Elem(t), Tail(p))
         ELSE <<>>
    ELSE <<>>

\* what assignValues leaves of configVal after values[1..k-1]
Before(configVal, values, k) ==
    assignValues(scn.cfg, configVal, scn.type, SubSeq(values, 1, k - 1), 1)

\* the records whose single field is a map: of scalars, of records held by value, of
\* pointers to records
MapRecords == {"cacheConfig", "recordsConfig", "peersConfig"}

MapField == FieldsOf(scn.type)[1]
Entries(v) == v[MapField.name].m

\* of a discovered value under the map: the key it addresses, the path below the
\* element, the type of the leaf there
KeyAt(v) == SetterSet(Key(MapField.type), v.Path[2])
Below(v) == Tail(Tail(v.Path))
LeafType(v) == (CHOOSE l \in Leaves(Elem(MapField.type), <<>>) : l.path = Below(v)).type

\* the key and its value convert
Convertible(v) == KeyAt(v).ok /\ SetterSet(LeafType(v), v.StrValue).ok

\* value k of vs addresses a key that holds an element when it is assigned
HeldKey(vs, k, before) ==
    \/ KeyAt(vs[k]).v \in DOMAIN Entries(before)
    \/ \E j \in 1..(k - 1) : KeyAt(vs[j]).v = KeyAt(vs[k]).v

\* value k of vs is the last of vs to address its leaf
LastWriter(vs, k) ==
    \A j \in (k + 1)..Len(vs) :
        ~(KeyAt(vs[j]).v = KeyAt(vs[k]).v /\ Below(vs[j]) = Below(vs[k]))

\* C11: when a discovered value addresses a map key that already holds an element
\* (scalar, record held by value or pointer to record), Load succeeds: every
\* discovered value is in the leaf it addresses, every entry the map held is still
\* there, and every leaf of an entry that no value addresses is as it was; a map of
\* records held by value with two fields of one key in the environment ends with
\* both fields set.
C11_MapElementUpdated ==
    \A i \in PtrLoads :
        (/\ scn.type.name \in MapRecords
         /\ \A k \in DOMAIN rets[i].values : Convertible(rets[i].values[k])
         /\ \E k \in DOMAIN rets[i].values : HeldKey(rets[i].values, k, rets[i].before)) =>
            /\ rets[i].err = "none"
            /\ \A k \in DOMAIN rets[i].values :
                   LastWriter(rets[i].values, k) =>
                       Read(rets[i].after, scn.type, rets[i].values[k].Path)
                           = <<SetterSet(LeafType(rets[i].values[k]),
                                         rets[i].values[k].StrValue).v>>
            /\ \A key \in DOMAIN Entries(rets[i].before) :
                   /\ key \in DOMAIN Entries(rets[i].after)
                   /\ \A l \in Leaves(Elem(MapField.type), <<>>) :
                          (\A k \in DOMAIN rets[i].values :
                               ~(KeyAt(rets[i].values[k]).v = key
                                 /\ Below(rets[i].values[k]) = l.path)) =>
                              Read(Entries(rets[i].after)[key], Elem(MapField.type), l.path)
                                  = Read(Entries(rets[i].before)[key], Elem(MapField.type),
                                         l.path)

\* the positions of the fields of the target whose own key is in the environment
PresentFields == {k \in 1..Len(FieldsOf(scn.type)) : Raw(<<FieldsOf(scn.type)[k].name>>) # <<>>}

\* the type a tagged field hands to the registry, and what its setter makes of the
\* raw value of the field's key
PointedType(k) == Resolved(FieldsOf(scn.type)[k].type)
SetOf(k) == SetterSet(PointedType(k), Raw(<<FieldsOf(scn.type)[k].name>>)[1])

\* the present tagged fields whose assignment is to fail: no setter is registered
\* for the pointed-to type, or the setter refuses the raw value
FailingFields ==
    {k \in PresentFields : PointedType(k) \notin scn.cfg.setters \/ ~SetOf(k).ok}

FirstFailing == IF FailingFields = {} THEN Len(FieldsOf(scn.type)) + 1 ELSE Min(FailingFields)

\* C12: on a record whose fields all carry the noexpand tag, discovery makes one
\* point lookup per field and no enumeration, and discovers the raw value of each
\* field whose own key is present, with the field's own path; assignment goes
\* through the pointers of the field and gives the raw value to the setter of the
\* pointed-to type, Load failing with the unsupported-type error when no setter is
\* registered for that type; a field whose key is absent is left as it was.
C12_NoExpandField ==
    \A i \in PtrLoads :
        scn.type.name = "noExpandConfig" =>
            /\ rets[i].reads = Len(FieldsOf(scn.type))
            /\ Len(rets[i].values) = Cardinality(PresentFields)
            /\ {v.Path : v \in Range(rets[i].values)}
                   = {<<FieldsOf(scn.type)[k].name>> : k \in PresentFields}
            /\ \A v \in Range(rets[i].values) : <<v.StrValue>> = Raw(v.Path)
            /\ rets[i].err = IF FailingFields = {} THEN "none"
                             ELSE IF PointedType(FirstFailing) \notin scn.cfg.setters
                             THEN "nosetter" ELSE "convert"
            /\ \A k \in 1..Len(FieldsOf(scn.type)) :
                   IF k \notin PresentFields
                   THEN rets[i].after[FieldsOf(scn.type)[k].name]
                            = rets[i].before[FieldsOf(scn.type)[k].name]
                   ELSE k < FirstFailing =>
                            Read(rets[i].after, scn.type, <<FieldsOf(scn.type)[k].name>>)
                                = <<SetOf(k).v>>

\* the next-level tokens the environment holds under the key of a field named
\* name of the target, the separator being "_"
TokensUnder(name) ==
    {StringsSplit(TrimPrefix(n, envVarFromPath(scn.cfg, <<name>>) \o "_"), "_")[1] :
         n \in {m \in EnvNames : HasPrefix(m, envVarFromPath(scn.cfg, <<name>>) \o "_")}}

\* the token is a decimal integer greater than or equal to n
IntegerGeq(token, n) ==
    /\ Len(token) > 0
    /\ AllDigits(token)
    /\ Len(StripZeros(token)) > 9 \/ DecValue(StripZeros(token)) >= n

\* C13: when the environment holds, under the key of an array field of length N, a
\* token that is an integer greater than or equal to N, Load returns the bounds
\* error (or the parse error of a token enumerated before it) and no element of
\* the array is modified, keys for valid indices being present or not.
C13_ArrayIndexOutOfBounds ==
    \A i \in PtrLoads :
        (/\ scn.type.name = "arrayConfig"
         /\ \E token \in TokensUnder("Arr") : IntegerGeq(token, FieldsOf(scn.type)[1].type.len)) =>
            /\ rets[i].err \in {"bounds", "index"}
            /\ rets[i].after.Arr = rets[i].before.Arr

\* record types made of scalar leaves, records held by value or behind pointers,
\* and records embedded by value
PlainRecords == AcyclicRecords \cup {"anotherConfigStruct", "levelConfig"}

\* leaf l holds in instance after what it held in instance before; a leaf behind
\* a pointer that was nil is not there or holds the zero value
Kept(before, after, l) ==
    IF Read(before, scn.type, l.path) = <<>>
    THEN Read(after, scn.type, l.path) \in {<<>>, <<Zero(l.type)>>}
    ELSE Read(after, scn.type, l.path) = Read(before, scn.type, l.path)

\* C15: a scalar leaf whose derived key is absent from the environment gives no
\* discovered value and no error (a Load that finds none of the keys of its leaves
\* returns nil, discovers nothing and leaves the target as it was), and after a
\* successful Load the leaf holds the value it had before the call, zero or not.
C15_AbsentKeyKeepsLeaf ==
    \A i \in PtrLoads :
        scn.type.name \in PlainRecords =>
            /\ \A l \in Leaves(scn.type, <<>>) :
                   Raw(l.path) = <<>> =>
                       /\ \A v \in Range(rets[i].values) : v.Path # l.path
                       /\ rets[i].err = "none" => Kept(rets[i].before, rets[i].after, l)
            /\ (\A l \in Leaves(scn.type, <<>>) :
                    Raw(l.path) = <<>> /\ Len(l.path) <= scn.cfg.maxDepth) =>
                   /\ rets[i].err = "none"
                   /\ rets[i].values = <<>>
                   /\ rets[i].after = rets[i].before

\* a Load that finds APP_RETRIES alone leaves the name the caller had set
C15_Witness ==
    \E i \in PtrLoads :
        /\ scn.type.name = "appConfig"
        /\ EnvNames = {"APP_RETRIES"}
        /\ rets[i].before = [Name |-> "dflt", Retries |-> 5]
        /\ rets[i].err = "none"
        /\ rets[i].after = [Name |-> "dflt", Retries |-> 3]

\* the errors of setValue: the setter refuses the raw value, or none is registered
SetterErrors == {"convert", "nosetter"}

\* the leaf of the target a discovered value addresses
LeafOf(v) == CHOOSE l \in Leaves(scn.type, <<>>) : l.path = v.Path

\* what assignValue makes of configVal for value v
Applied(configVal, v) ==
    assignValue(scn.cfg, configVal, scn.type, v.Path, v.StrValue, Settable)

\* the positions of the discovered values vs of a record of scalar leaves that no
\* setter is registered for, or whose raw value the setter refuses
Unsettable(vs) ==
    {j \in DOMAIN vs : \/ LeafOf(vs[j]).type \notin scn.cfg.setters
                       \/ ~SetterSet(LeafOf(vs[j]).type, vs[j].StrValue).ok}

\* C16: when Load returns the error of a setter (or of a missing setter), it is the
\* error of the first discovered value whose assignment fails, say values[k]: the
\* values before k were assigned and their effects remain, the target is as the
\* assignment of values[k] left it, and no value after k is applied (on a record of
\* scalar leaves: the leaves of the values before k hold their converted values,
\* the leaves of the values after k hold what they held before the call).  On a
\* record of scalar leaves, Load returns that error as soon as a discovered value
\* has no setter or a raw value its setter refuses, and k is the first of them.
C16_SetterErrorStopsAssignment ==
    \A i \in PtrLoads :
      /\ (scn.type.name \in PlainRecords /\ Unsettable(rets[i].values) # {}) =>
             /\ rets[i].assigned = Min(Unsettable(rets[i].values))
             /\ rets[i].err =
                    IF LeafOf(rets[i].values[rets[i].assigned]).type \in scn.cfg.setters
                    THEN "convert" ELSE "nosetter"
      /\ rets[i].err \in SetterErrors =>
            /\ rets[i].assigned \in 1..Len(rets[i].values)
            /\ Before(rets[i].before, rets[i].values, rets[i].assigned).err = "none"
            /\ Applied(Before(rets[i].before, rets[i].values, rets[i].assigned).val,
                       rets[i].values[rets[i].assigned]).err = rets[i].err
            /\ rets[i].after
                   = Applied(Before(rets[i].before, rets[i].values, rets[i].assigned).val,
                             rets[i].values[rets[i].assigned]).val
            /\ scn.type.name \in PlainRecords =>
                   \A j \in DOMAIN rets[i].values :
                       /\ j < rets[i].assigned =>
                              Read(rets[i].after, scn.type, rets[i].values[j].Path)
                                  = <<SetterSet(LeafOf(rets[i].values[j]).type,
                                                rets[i].values[j].StrValue).v>>
                       /\ j > rets[i].assigned =>
                              Kept(rets[i].before, rets[i].after, LeafOf(rets[i].values[j]))

\* the int setter refuses the second of three discovered values
C16_Witness ==
    \E i \in FreshLoads :
        /\ scn.type.name = "basicAppConfig"
        /\ Len(rets[i].values) = 3
        /\ rets[i].values[2].StrValue = "x"
        /\ rets[i].err = "convert"
        /\ rets[i].assigned = 2
        /\ rets[i].after = [StringValue |-> "a", IntValue |-> 0, BoolValue |-> FALSE]

\* the record types with a member embedded by value or an embedded interface
EmbeddingRecords == {"anotherConfigStruct", "ifaceConfig"}

\* the embedded members of the target type
EmbeddedMembers == {f \in Range(StructFields(scn.type.name)) : f.anonymous}

\* the scalar leaves of the target type, the embedded interface left out
ScalarLeaves == {l \in Leaves(scn.type, <<>>) : l.type.kind # "interface"}

\* C17: on a record with a member embedded by value or an embedded interface, Load
\* reads one key per scalar leaf, the leaves of the embedded record under the
\* parent's path (no discovered path has a segment naming the embedded member);
\* it returns no error when the raw values convert, and then every leaf whose key
\* is defined, those of the embedded record included, holds its converted value,
\* every other leaf and the embedded interface hold what they held before.
C17_EmbeddedByValue ==
    \A i \in PtrLoads :
        scn.type.name \in EmbeddingRecords =>
            /\ rets[i].reads = Cardinality(ScalarLeaves)
            /\ \A k \in DOMAIN rets[i].values :
                   /\ Len(rets[i].values[k].Path) = 1
                   /\ \A f \in EmbeddedMembers : rets[i].values[k].Path[1] # f.name
            /\ {rets[i].values[k].Path : k \in DOMAIN rets[i].values}
                   = {l.path : l \in {x \in ScalarLeaves : Raw(x.path) # <<>>}}
            /\ (\A l \in ScalarLeaves :
                    Raw(l.path) # <<>> => SetterSet(l.type, Raw(l.path)[1]).ok)
                 => /\ rets[i].err = "none"
                    /\ \A l \in ScalarLeaves :
                           ReadBack(rets[i].after, scn.type, l.path)
                               = IF Raw(l.path) # <<>>
                                 THEN <<SetterSet(l.type, Raw(l.path)[1]).v>>
                                 ELSE ReadBack(rets[i].before, scn.type, l.path)
                    /\ \A f \in EmbeddedMembers :
                           f.type.kind = "interface" =>
                               rets[i].after[f.name] = rets[i].before[f.name]

\* the parent with embedded {EmbeddedValue} is fully populated from EMBEDDED_VALUE
\* and its own keys
C17_Witness ==
    \E i \in FreshLoads :
        /\ scn.type.name = "anotherConfigStruct"
        /\ EnvNames = {"EMBEDDED_VALUE", "STRING_VALUE", "INT_VALUE"}
        /\ rets[i].err = "none"
        /\ rets[i].after = [embeddedConfig |-> [EmbeddedValue |-> "e"],
                            StringValue |-> "s", IntValue |-> 4]

\* C20: the values one call of Load discovers at distinct paths were read from
\* distinct keys, whether the paths are those of sibling fields or of leaves at
\* different nesting levels.
C20_DistinctKeys ==
    \A i \in PtrLoads :
        \A k, l \in DOMAIN rets[i].values :
            rets[i].values[k].Path # rets[i].values[l].Path =>
                envVarFromPath(scn.cfg, rets[i].values[k].Path)
                    # envVarFromPath(scn.cfg, rets[i].values[l].Path)

-----------------------------------------------------------------------------
(* Properties of the passes called on their own *)

\* the calls of each pass
Analyses == {i \in DOMAIN rets : rets[i].arg = "analyzeStruct"}
Assignments == {i \in DOMAIN rets : rets[i].arg = "assignValues"}

\* records whose first field is a sequence of scalars
SeqRecords == {"sliceConfig", "arrayConfig"}

\* the token is not a non-negative base-10 integer
NotIndex(token) == Len(token) = 0 \/ ~AllDigits(token)

\* the value's path goes into a sequence field of the target
SeqPath(v) ==
    /\ Len(v.Path) >= 2
    /\ \E f \in Range(FieldsOf(scn.type)) :
           f.name = v.Path[1] /\ f.type.kind \in {"slice", "array"}

\* the positions of the hand-built values that index a sequence with such a token
BadIndexAt(values) == {k \in DOMAIN values : SeqPath(values[k]) /\ NotIndex(values[k].Path[2])}

\* C14: for an array or a slice, a next-level token that is not a non-negative
\* base-10 integer (a word, a negative number) makes discovery return an error and
\* no value; a hand-built value with such a token makes assignValues return the
\* parse error when it comes to it, the target being as the values before it left
\* it: no element is written for that value nor for those after it.
C14_BadIndexToken ==
    /\ \A i \in Analyses :
           (/\ scn.type.name \in SeqRecords
            /\ \E token \in TokensUnder(FieldsOf(scn.type)[1].name) : NotIndex(token)) =>
               /\ rets[i].err = "index"
               /\ rets[i].values = <<>>
               /\ rets[i].after = rets[i].before
    /\ \A i \in Assignments :
           (/\ BadIndexAt(rets[i].values) # {}
            /\ Before(rets[i].before, rets[i].values, Min(BadIndexAt(rets[i].values))).err
                   = "none") =>
               /\ rets[i].err = "parse"
               /\ rets[i].assigned = Min(BadIndexAt(rets[i].values))
               /\ rets[i].after
                      = Before(rets[i].before, rets[i].values,
                               Min(BadIndexAt(rets[i].values))).val

\* discovery refuses the key ARR_FOO, then assignValues stops at the hand-built value
\* of index Foo after the element 0 is written
C14_Witness ==
    \E i \in Analyses, j \in Assignments :
        /\ scn.type.name = "arrayConfig"
        /\ "ARR_FOO" \in EnvNames
        /\ rets[i].err = "index"
        /\ Len(rets[j].values) = 3
        /\ rets[j].values[2].Path = <<"Arr", "Foo">>
        /\ rets[j].err = "parse"
        /\ rets[j].after.Arr = <<5, 0>>

\* path p leads through records and pointers only, from type t to a scalar leaf
RECURSIVE Through(_, _)
Through(t, p) ==
    IF t.kind = "ptr" THEN Through(Elem(t), p)
    ELSE IF t.kind = "struct"
    THEN /\ p # <<>>
         /\ \E f \in Range(FieldsOf(t)) :
                /\ ~f.anonymous
                /\ f.name = p[1]
                /\ Through(f.type, Tail(p))
    ELSE p = <<>> /\ t.kind \in {"string", "int", "bool"}

\* the number of pointers on path p from value v of type t that are nil, or below a
\* nil pointer (nil tells v is below one)
RECURSIVE NilsOn(_, _, _, _)
NilsOn(v, t, p, nil) ==
    IF t.kind = "ptr"
    THEN IF nil \/ v = <<>> THEN 1 + NilsOn(<<>>, Elem(t), p, TRUE)
         ELSE NilsOn(v[1], Elem(t), p, FALSE)
    ELSE IF t.kind = "struct"
    THEN LET f == CHOOSE g \in Range(FieldsOf(t)) : ~g.anonymous /\ g.name = p[1]
         IN  NilsOn(IF nil THEN <<>> ELSE v[f.name], f.type, Tail(p), nil)
    ELSE 0

\* the paths of the hand-built values of the scenario given one at a time
ListedPaths == {l[1].Path : l \in {x \in scn.lists : Len(x) = 1}}

\* C18: when assignValues assigns one value whose path leads through records and
\* pointers only, it returns no error and the leaf holds the value; it allocates as
\* many instances as there are pointers on the path that are nil or below a nil
\* pointer (the whole chain of a nil pointer, none for a pointer that is not nil),
\* no pointer on the path is nil afterwards, and every other leaf that could be
\* read before reads the same afterwards: an instance already there is reused.
C18_AllocateOrReuse ==
    \A i \in Assignments :
        (Len(rets[i].values) = 1 /\ Through(scn.type, rets[i].values[1].Path)) =>
            /\ rets[i].err = "none"
            /\ rets[i].news = NilsOn(rets[i].before, scn.type, rets[i].values[1].Path, FALSE)
            /\ NilsOn(rets[i].after, scn.type, rets[i].values[1].Path, FALSE) = 0
            /\ Read(rets[i].after, scn.type, rets[i].values[1].Path)
                   = <<rets[i].values[1].StrValue>>
            /\ \A q \in ListedPaths \ {rets[i].values[1].Path} :
                   (Through(scn.type, q) /\ Read(rets[i].before, scn.type, q) # <<>>) =>
                       Read(rets[i].after, scn.type, q) = Read(rets[i].before, scn.type, q)

\* a chain of three nil pointers is allocated by a first value, and the instance is
\* reused by a second value that addresses another of its fields
C18_Witness ==
    \E i, j \in Assignments :
        /\ i < j
        /\ scn.type.name = "testAppConfig"
        /\ rets[i].before.PtrPtrPtrToStruct = <<>>
        /\ rets[i].values = <<Value("FOO", <<"PtrPtrPtrToStruct", "StringValue">>)>>
        /\ rets[i].news = 3
        /\ rets[j].values = <<Value("BAR", <<"PtrPtrPtrToStruct", "OtherStringValue">>)>>
        /\ rets[j].news = 0
        /\ rets[j].after.PtrPtrPtrToStruct[1][1][1].StringValue = "FOO"
        /\ rets[j].after.PtrPtrPtrToStruct[1][1][1].OtherStringValue = "BAR"

\* the type of the field named name of the target type
FieldType(name) == (CHOOSE f \in Range(FieldsOf(scn.type)) : f.name = name).type

SliceOfScalars(t) == t.kind = "slice" /\ Elem(t).kind \in {"string", "int", "bool"}

\* path p is an index in a slice of scalars that a field of the target holds, or
\* that a map held by a field of the target holds under a key
IndexesSlice(p) ==
    /\ Len(p) \in {2, 3}
    /\ \E f \in Range(FieldsOf(scn.type)) : f.name = p[1]
    /\ IF Len(p) = 2 THEN SliceOfScalars(FieldType(p[1]))
       ELSE FieldType(p[1]).kind = "map" /\ SliceOfScalars(Elem(FieldType(p[1])))

\* the slice that p indexes, in instance v of the target: empty when it is nil or
\* when the map does not hold the key
HeldSlice(v, p) ==
    IF Read(v, scn.type, SubSeq(p, 1, Len(p) - 1)) = <<>> THEN <<>>
    ELSE Read(v, scn.type, SubSeq(p, 1, Len(p) - 1))[1]

ElemOfSlice(p) == Elem(IF Len(p) = 2 THEN FieldType(p[1]) ELSE Elem(FieldType(p[1])))

\* the token is an index: a decimal integer an unsigned 64-bit integer holds
IsIndex(token) ==
    Len(token) > 0 /\ AllDigits(token) /\ DigitsLeq(StripZeros(token), MaxUint64)

\* slice s of length L once the value conv is given to index token
Indexed(s, token, conv) ==
    IF IntegerGeq(token, Len(s)) THEN Append(s, conv)
    ELSE [s EXCEPT ![DecValue(StripZeros(token)) + 1] = conv]

\* C19: when assignValues assigns one value that its setter accepts to index i of a
\* slice of scalars of length L, it returns no error; if i < L the slice keeps its
\* length and holds the value at i, if i >= L the value is appended and the length
\* is L + 1; the other elements are unchanged.
C19_SliceIndex ==
    \A i \in Assignments :
        (/\ Len(rets[i].values) = 1
         /\ IndexesSlice(rets[i].values[1].Path)
         /\ IsIndex(Last(rets[i].values[1].Path))
         /\ SetterSet(ElemOfSlice(rets[i].values[1].Path), rets[i].values[1].StrValue).ok) =>
            /\ rets[i].err = "none"
            /\ HeldSlice(rets[i].after, rets[i].values[1].Path)
                   = Indexed(HeldSlice(rets[i].before, rets[i].values[1].Path),
                             Last(rets[i].values[1].Path),
                             SetterSet(ElemOfSlice(rets[i].values[1].Path),
                                       rets[i].values[1].StrValue).v)

-----------------------------------------------------------------------------
(* Properties of Load and of the passes on the types at the edges *)

\* the kinds the claim names: function, channel, interface, raw pointer
RefusedKinds == {"func", "chan", "interface", "unsafepointer"}

\* type t holds, directly, behind pointers or in a record it holds, a field that is
\* neither embedded nor tagged and whose kind is refused
RECURSIVE HasRefusedField(_)
HasRefusedField(t) ==
    IF t.kind = "ptr" THEN HasRefusedField(Elem(t))
    ELSE IF t.kind = "struct"
    THEN \E f \in Range(FieldsOf(t)) :
             /\ ~f.anonymous
             /\ ~f.hasTag
             /\ \/ Resolved(f.type).kind \in RefusedKinds
                \/ Resolved(f.type).kind = "struct" /\ HasRefusedField(f.type)
    ELSE FALSE

\* path p leads from type t, through records and pointers, to a value of a
\* refused kind
RECURSIVE LeadsToRefused(_, _)
LeadsToRefused(t, p) ==
    IF t.kind = "ptr" THEN LeadsToRefused(Elem(t), p)
    ELSE IF t.kind = "struct"
    THEN /\ p # <<>>
         /\ \E f \in Range(FieldsOf(t)) :
                ~f.anonymous /\ f.name = p[1] /\ LeadsToRefused(f.type, Tail(p))
    ELSE p = <<>> /\ t.kind \in RefusedKinds

\* the positions of the hand-built values vs whose path leads to a refused kind
RefusedAt(vs) == {k \in DOMAIN vs : LeadsToRefused(scn.type, vs[k].Path)}

\* C21: on a record type with a field of a refused kind (function, channel,
\* interface, raw pointer; directly, behind pointers or in a nested record) that
\* is neither embedded nor tagged, Load and analyzeStruct fail whatever the
\* environment holds, with the unsupported-type error when the field is within the
\* maximum depth, and Load leaves the target as it was; assignValues returns the
\* unsupported-type error at the first hand-built value whose path leads to a
\* value of such a kind.
C21_UnsupportedKind ==
    \A i \in DOMAIN rets :
        /\ (rets[i].arg \in {"ptr", "analyzeStruct"} /\ HasRefusedField(scn.type)) =>
               /\ rets[i].err \in {"unsupported", "depth"}
               /\ scn.cfg.maxDepth >= 2 => rets[i].err = "unsupported"
               /\ rets[i].values = <<>>
               /\ rets[i].after = rets[i].before
        /\ (rets[i].arg = "assignValues" /\ RefusedAt(rets[i].values) # {}) =>
               /\ rets[i].err = "unsupported"
               /\ rets[i].assigned = Min(RefusedAt(rets[i].values))

\* Load fails on the channel field with both keys defined, and the assignment of
\* hand-built values stops at the one that names the channel field
C21_Witness ==
    \E i, j \in DOMAIN rets :
        /\ scn.type.name = "eventsConfig"
        /\ EnvNames = {"NAME", "EVENTS"}
        /\ rets[i].arg = "ptr"
        /\ rets[i].err = "unsupported"
        /\ rets[j].arg = "assignValues"
        /\ rets[j].err = "unsupported"
        /\ rets[j].assigned = 2
        /\ rets[j].after.Name = "a"

\* the assignment passes that follow a discovery pass
Second == {k \in Assignments : k > 1 /\ rets[k - 1].arg = "analyzeStruct"}

\* the environments in which discovery returns the list vs without error
Giving(vs) ==
    {e \in EnvsOf(scn.vars) :
         /\ analyzeStruct(scn.cfg, e, scn.type, <<>>).err = "none"
         /\ analyzeStruct(scn.cfg, e, scn.type, <<>>).values = vs}

\* C24: the discovery pass leaves the target as it was; the assignment pass that
\* follows it returns, and leaves in the target, what Load does on the same
\* initial target in any environment in which discovery returns the same list,
\* whatever the environment has become since discovery returned; on a record of
\* scalar leaves, when it returns no error every discovered value is in its leaf,
\* converted from the raw value discovery read.
C24_PassesIndependent ==
    /\ \A j \in Analyses : rets[j].after = rets[j].before
    /\ \A k \in Second :
           /\ rets[k].before = rets[k - 1].before
           /\ rets[k].values = rets[k - 1].values
           /\ \A e \in Giving(rets[k].values) :
                  /\ rets[k].err = LoadCall(scn.cfg, e, "ptr", rets[k].before, scn.type).err
                  /\ rets[k].after = LoadCall(scn.cfg, e, "ptr", rets[k].before, scn.type).after
           /\ (scn.type.name \in PlainRecords /\ rets[k].err = "none") =>
                  \A i \in DOMAIN rets[k].values :
                      Read(rets[k].after, scn.type, rets[k].values[i].Path)
                          = <<SetterSet(LeafOf(rets[k].values[i]).type,
                                        rets[k].values[i].StrValue).v>>

\* NAME is a when discovery reads it, b when the assignment pass runs: the target
\* is given a
C24_Witness ==
    \E k \in Second :
        /\ scn.type.name = "appConfig"
        /\ rets[k].values = <<Value("a", <<"Name">>)>>
        /\ env = <<Var("RETRIES", "3"), Var("NAME", "b")>>
        /\ rets[k].err = "none"
        /\ rets[k].after.Name = "a"
        /\ rets[k].after.Retries = rets[k].before.Retries

\* the target type has an embedded member that is a pointer to a record
PointerEmbedding ==
    \E f \in Range(FieldsOf(scn.type)) :
        f.anonymous /\ f.type.kind = "ptr" /\ Resolved(f.type).kind = "struct"

\* C23: on a record with a pointer-embedded record, Load and analyzeStruct do not
\* panic: they return an error, or discover the leaves whose key is defined, those
\* of the pointed-to record under the path of the parent as for a record embedded
\* by value.
C23_PointerEmbedded ==
    \A i \in DOMAIN rets :
        (rets[i].arg \in {"ptr", "analyzeStruct"} /\ PointerEmbedding) =>
            /\ rets[i].err # "panic"
            /\ rets[i].err = "none" =>
                   {rets[i].values[k].Path : k \in DOMAIN rets[i].values}
                       = {l.path : l \in {x \in Leaves(scn.type, <<>>) : Raw(x.path) # <<>>}}

\* the record types whose single field is a sequence or a map
CollectionRecords == {"sliceConfig", "cacheConfig"}

\* the variables of environment e whose name starts with the key of the field
\* named name followed by the separator
Under(e, name) ==
    SelectSeq(e, LAMBDA v : HasPrefix(v.name, envVarFromPath(scn.cfg, <<name>>)
                                                  \o scn.cfg.separator))

\* C22: on a record whose single field is a sequence or a map, Load reads,
\* discovers, returns and leaves in the target what it would with the environment
\* reduced to the variables whose name starts with the key of the field followed
\* by the separator: a variable named as the key itself, or one that has the key
\* as a mere string prefix, contributes nothing and cannot make Load fail.
C22_PrefixThenSeparator ==
    \A i \in PtrLoads :
        scn.type.name \in CollectionRecords =>
            rets[i] = LoadCall(scn.cfg, Under(env, FieldsOf(scn.type)[1].name), "ptr",
                               rets[i].before, scn.type)

\* a value of type t is nil (for a sequence: empty)
IsNil(v, t) == IF t.kind = "map" THEN v.isnil ELSE v = <<>>

\* the members of the target that can be nil: pointers, maps and sequences
NilCapable == {f \in Range(FieldsOf(scn.type)) : ~f.anonymous /\ f.type.kind \in {"ptr", "map", "slice"}}

\* a discovered value of the call has a path that goes through the member f
Demanded(r, f) == \E j \in 1..Len(r.values) : r.values[j].Path # <<>> /\ r.values[j].Path[1] = f.name

\* C28: after a Load that returns no error, a pointer member that was nil, a
\* map that was nil and a sequence that was empty are still nil (empty) unless
\* a discovered value has a path that goes through the member; a Load that
\* discovers nothing allocates nothing and leaves the target as it was
C28_AllocateOnDemand ==
    \A i \in PtrLoads :
        rets[i].err = "none" =>
            /\ \A f \in NilCapable :
                   (IsNil(rets[i].before[f.name], f.type) /\ ~Demanded(rets[i], f)) =>
                       IsNil(rets[i].after[f.name], f.type)
            /\ rets[i].values = <<>> => (rets[i].news = 0 /\ rets[i].after = rets[i].before)

\* a Load assigns a value below a nil pointer, which it allocates, and leaves
\* another nil pointer of the target nil
C28_Witness ==
    \E i \in PtrLoads :
        /\ rets[i].err = "none"
        /\ \E f, g \in NilCapable :
               /\ IsNil(rets[i].before[f.name], f.type)
               /\ ~Demanded(rets[i], f)
               /\ IsNil(rets[i].after[f.name], f.type)
               /\ IsNil(rets[i].before[g.name], g.type)
               /\ Demanded(rets[i], g)
               /\ ~IsNil(rets[i].after[g.name], g.type)

\* records with members embedded by value
FlatRecords == {"anotherConfigStruct", "shadowConfig", "twinsConfig"}

\* the string leaves of the target type, each with the place it has in an
\* instance (at) and the path discovery gives it (path): a leaf of an embedded
\* member is inside the member and has the path of a leaf of the parent
StringLeaves ==
    {[at |-> <<f.name>>, path |-> <<f.name>>] :
        f \in {g \in Range(FieldsOf(scn.type)) : ~g.anonymous /\ g.type.kind = "string"}}
    \cup UNION {{[at |-> <<f.name, g.name>>, path |-> <<g.name>>] :
                    g \in {h \in Range(FieldsOf(f.type)) : h.type.kind = "string"}} :
                f \in {g \in Range(FieldsOf(scn.type)) : g.anonymous /\ g.type.kind = "struct"}}

HeldAt(v, at) == IF Len(at) = 1 THEN v[at[1]] ELSE v[at[1]][at[2]]

\* C30: discovery and assignment agree on the field a path names: Load returns
\* no error and every string leaf whose key is defined holds the value of its
\* variable afterwards, the leaves of an embedded member included, also when
\* the parent or another embedded member declares a field of the same name
C30_SameFieldResolution ==
    \A i \in PtrLoads :
        scn.type.name \in FlatRecords =>
            \A l \in StringLeaves :
                Raw(l.path) # <<>> =>
                    /\ rets[i].err = "none"
                    /\ HeldAt(rets[i].after, l.at) = Raw(l.path)[1]

\* the token parses as an unsigned 64-bit integer that no signed one holds
WrapsAround(token) == IsIndex(token) /\ ~DigitsLeq(StripZeros(token), MaxInt64)

\* C29: an index token in 2^63..2^64-1 under the key of a sequence is never
\* used as a negative index: Load does not panic on it, and for a sequence of
\* fixed length Load returns the bounds error (or the parse error of another
\* token) and leaves the sequence as it was
C29_NoWrappedIndex ==
    \A i \in PtrLoads :
        (/\ scn.type.name \in {"arrayConfig", "sliceConfig"}
         /\ scn.cfg.separator = "_"
         /\ \E token \in TokensUnder(FieldsOf(scn.type)[1].name) : WrapsAround(token)) =>
            /\ rets[i].err # "panic"
            /\ FieldsOf(scn.type)[1].type.kind = "array" =>
                   /\ rets[i].err \in {"bounds", "index"}
                   /\ rets[i].after = rets[i].before

\* the variables of e named <container key><separator><TOKEN>, the container
\* being the single member of the record, as <<k, TOKEN>>
TokensBelow(c, e, container) ==
    {x \in {<<k, StringsSplit(e[k].name, c.separator)>> : k \in 1..Len(e)} :
        /\ Len(x[2]) = 2
        /\ x[2][1] = envVarFromPath(c, <<container>>)}

\* C27: for a map or a sequence of scalars, every variable named
\* <container key><separator><TOKEN> gives the path segment lower(TOKEN), the
\* key derived from the path with that segment is the name of the variable, and
\* unless discovery fails on an index the variable's value is discovered at
\* that path (tokens mixing letters and digits, as FOO1, included)
C27_KeysRoundTrip ==
    \A i \in PtrLoads :
        (scn.type.name \in CollectionRecords /\ scn.cfg.separator = "_") =>
            \A x \in TokensBelow(scn.cfg, env, FieldsOf(scn.type)[1].name) :
                /\ envVarFromPath(scn.cfg, <<FieldsOf(scn.type)[1].name, ToLower(x[2][2])>>)
                      = env[x[1]].name
                /\ rets[i].err # "index" =>
                      \E j \in 1..Len(rets[i].values) :
                          rets[i].values[j]
                            = [StrValue |-> env[x[1]].value,
                               Path |-> <<FieldsOf(scn.type)[1].name, ToLower(x[2][2])>>]

-----------------------------------------------------------------------------
(* Properties of Load one call at a time *)

\* two calls are the same call: the same function on the same type and path
SameCall(f, g) == f.op = g.op /\ f.type = g.type /\ f.path = g.path

\* C25: Load always terminates, whatever the type, the environment and the
\* maximum depth.  What a call of the traversal does depends on its arguments
\* and on the environment only, so it returns exactly when it never leads to the
\* same call again while it is pending: no two pending calls are the same call,
\* and the stack of pending calls never outgrows what the runtime allows
C25_LoadTerminates ==
    /\ pc # "fatal"
    /\ \A i, j \in 1..Len(calls) : (i < j /\ pc \in {"discover", "assign"}) => ~SameCall(calls[i], calls[j])

\* the discovered values of the Load in progress, and the slices of their paths
Emitted == rets[1].values
EmittedPath(i) == Elems(heap, heap.paths[i])

\* C26: every discovered value carries the path that was current when its
\* variable was looked up, at every step of Load after that: the slice of its
\* Path is a copy, which no later append to the path in progress (for a later
\* sibling field or a later key of a collection) changes
C26_PathsCloned ==
    /\ Len(heap.paths) = Len(Emitted)
    /\ \A i \in 1..Len(Emitted) : EmittedPath(i) = Emitted[i].Path

\* a backing array of the path in progress held the path of a discovered
\* value and had its last segment overwritten since
Overwritten(i) ==
    \E a \in 1..Len(heap.arrays) :
        /\ a # heap.paths[i].array
        /\ Len(heap.arrays[a]) >= Len(Emitted[i].Path)
        /\ SubSeq(heap.arrays[a], 1, Len(Emitted[i].Path) - 1)
              = SubSeq(Emitted[i].Path, 1, Len(Emitted[i].Path) - 1)
        /\ heap.arrays[a][Len(Emitted[i].Path)] \notin {"", Emitted[i].Path[Len(Emitted[i].Path)]}

C26_Witness ==
    /\ pc = "done"
    /\ rets[1].err = "none"
    /\ \E i \in 1..Len(Emitted) : Overwritten(i) /\ EmittedPath(i) = Emitted[i].Path

-----------------------------------------------------------------------------
(* Properties of the key codec *)

Underscored(c) == [c EXCEPT !.separator = "_"]

\* C8: a loader built with a blank separator behaves as one built with "_": every
\* derived key and every partition of the environment into next-level keys is the
\* same for both.
C8_BlankSeparatorIsUnderscore ==
    \A k \in DOMAIN calls :
        scn.cfg.separator = "" =>
            calls[k] = IF calls[k].op = "envVarFromPath"
                       THEN Derived(Underscored(scn.cfg), calls[k].path)
                       ELSE NextLevelOf(Underscored(scn.cfg), env, calls[k].path,
                                        envVarFromPath(Underscored(scn.cfg), calls[k].path))

\* the words of the segments of path p, in path order
RECURSIVE WordsOf(_)
WordsOf(p) == IF p = <<>> THEN <<>> ELSE CamelcaseSplit(Head(p)) \o WordsOf(Tail(p))

\* words joined with sep, last word first
RECURSIVE Joined(_, _)
Joined(ws, sep) ==
    IF Len(ws) = 0 THEN ""
    ELSE IF Len(ws) = 1 THEN ws[1]
    ELSE Joined(SubSeq(ws, 1, Len(ws) - 1), sep) \o sep \o ws[Len(ws)]

=============================================================================
